---- MODULE Spec2Model ----
(***************************************************************************)
(* Model of the template composition engine of titan4title                 *)
(* (src/app/services/template_engine.py): the query binder, the text       *)
(* layout functions, the layout context and the element composer with its  *)
(* repeating-table paginator.                                              *)
(*                                                                         *)
(* Conventions.                                                            *)
(*  - A Python str is a sequence of one-character strings.                 *)
(*  - A Python dict is a record; a key that is absent from the dict is     *)
(*    absent from the record's DOMAIN, and dict.get(key, default) is       *)
(*    Get(dict, key, default).                                             *)
(*  - Lengths are integers in tenths of a point, so that the code's        *)
(*    fractional defaults (size * 1.2) stay exact: the code's 36 is 360    *)
(*    here, its default size 10 is 100.  Sizes are whole points (multiples *)
(*    of 10).                                                              *)
(*  - An XPath expression is a sequence of tokens ("/", ".", "string(",    *)
(*    ")", element names, and "[" which no grammar rule accepts).          *)
(***************************************************************************)
EXTENDS Integers, Sequences, FiniteSets, TLC

VARIABLES
    template,   \* compose(): the template argument
    xml_root,   \* compose(): the xml_root argument
    pc,         \* position in compose(): "elements", "rows", "done", "raised"
    elem,       \* index of the element the for loop of compose() is at
    pages,      \* LayoutContext.pages
    rows,       \* _compose_repeating_table: the rows still to render
    row_idx,    \* _compose_repeating_table: idx of the next row of the for loop
    y_cursor,   \* _compose_repeating_table: y_cursor
    raised,     \* the exception that left compose(), "" when none
    call,       \* a direct call of a text-layout function: its arguments
    ret,        \* what that call returned
    wpc         \* position of the caller: "idle", "call", "returned"

vars == <<template, xml_root, pc, elem, pages, rows, row_idx, y_cursor,
          raised, call, ret, wpc>>

composeVars == <<template, xml_root, pc, elem, pages, rows, row_idx,
                 y_cursor, raised>>
callVars == <<call, ret, wpc>>

---------------------------------------------------------------------------
(* Generic helpers                                                         *)

Max(S) == CHOOSE m \in S : \A n \in S : n <= m

Last(s) == s[Len(s)]

Front(s) == SubSeq(s, 1, Len(s) - 1)

Get(dict, key, default) == IF key \in DOMAIN dict THEN dict[key] ELSE default

Has(dict, key) == key \in DOMAIN dict

RECURSIVE Concat(_)
Concat(ss) == IF ss = <<>> THEN <<>> ELSE Head(ss) \o Concat(Tail(ss))

RECURSIVE Join(_, _)
Join(sep, ss) ==
    IF ss = <<>> THEN <<>>
    ELSE IF Len(ss) = 1 THEN Head(ss)
    ELSE Head(ss) \o sep \o Join(sep, Tail(ss))

---------------------------------------------------------------------------
(* Text metrics: pdfmetrics.stringWidth(text, font, size) is the sum of    *)
(* the glyph widths (in fractions of an em) times the size.  Glyph widths  *)
(* are in tenths of an em.  The fallback to Helvetica on an unknown font   *)
(* uses the same table: one glyph table stands for every font.             *)

GlyphWidth(c) ==
    CASE c = "a" -> 5
      [] c = "W" -> 10
      [] c = " " -> 3
      [] c = "-" -> 3
      [] c = "." -> 3
      [] OTHER -> 0

RECURSIVE SumGlyphs(_)
SumGlyphs(text) ==
    IF text = <<>> THEN 0 ELSE GlyphWidth(Head(text)) + SumGlyphs(Tail(text))

_measure_text(text, font, size) == (SumGlyphs(text) * size) \div 10

---------------------------------------------------------------------------
(* Text layout                                                             *)

\* str.split("\n"): always at least one piece.
RECURSIVE SplitNewlines(_, _)
SplitNewlines(text, piece) ==
    IF text = <<>> THEN <<piece>>
    ELSE IF Head(text) = "\n" THEN <<piece>> \o SplitNewlines(Tail(text), <<>>)
    ELSE SplitNewlines(Tail(text), Append(piece, Head(text)))

\* str.split(): pieces between runs of whitespace, no empty piece.
RECURSIVE SplitWhitespace(_, _)
SplitWhitespace(text, piece) ==
    IF text = <<>> THEN (IF piece = <<>> THEN <<>> ELSE <<piece>>)
    ELSE IF Head(text) = " "
         THEN (IF piece = <<>> THEN <<>> ELSE <<piece>>)
              \o SplitWhitespace(Tail(text), <<>>)
         ELSE SplitWhitespace(Tail(text), Append(piece, Head(text)))

\* _find_split_index falling back to the whole word when no split fits
_find_split_index_whole_word(word, width, font, size) ==
    LET fitting == {idx \in 2..(Len(word) - 1) :
                      _measure_text(SubSeq(word, 1, idx) \o <<"-">>, font, size) <= width}
    IN  IF fitting # {} THEN Max(fitting) ELSE Len(word)

_find_split_index(word, width, font, size) ==
    LET fitting == {idx \in 2..(Len(word) - 1) :
                      _measure_text(SubSeq(word, 1, idx) \o <<"-">>, font, size) <= width}
    IN  IF fitting # {} THEN Max(fitting) ELSE Max({1, Len(word) - 1})

RECURSIVE SplitLoop(_, _, _, _, _)
SplitLoop(remainder, segments, width, font, size) ==
    IF _measure_text(remainder, font, size) > width /\ Len(remainder) > 1
    THEN LET split_idx == _find_split_index(remainder, width, font, size)
         IN  SplitLoop(SubSeq(remainder, split_idx + 1, Len(remainder)),
                       Append(segments, SubSeq(remainder, 1, split_idx) \o <<"-">>),
                       width, font, size)
    ELSE Append(segments, remainder)

\* mutant: only the first segment of a split word is kept
_split_long_word_first_segment(word, width, font, size, hyphenate) ==
    IF ~hyphenate \/ word = <<>> THEN <<word>>
    ELSE <<Head(SplitLoop(word, <<>>, width, font, size))>>

_split_long_word(word, width, font, size, hyphenate) ==
    IF ~hyphenate \/ word = <<>> THEN <<word>>
    ELSE SplitLoop(word, <<>>, width, font, size)

\* The while loop and the final word handling for one paragraph.
RECURSIVE WrapWords(_, _, _, _, _, _, _)
WrapWords(current, words, out, width, font, size, hyphenate) ==
    IF words # <<>>
    THEN LET next_word == Head(words)
             candidate == IF current # <<>> THEN current \o <<" ">> \o next_word
                          ELSE next_word
         IN  IF _measure_text(candidate, font, size) <= width
             THEN WrapWords(candidate, Tail(words), out, width, font, size, hyphenate)
             ELSE IF current = <<>>
             THEN LET segments == _split_long_word(next_word, width, font, size, hyphenate)
                  IN  WrapWords(Last(segments), Tail(words), out \o Front(segments),
                                width, font, size, hyphenate)
             ELSE WrapWords(next_word, Tail(words), Append(out, current),
                            width, font, size, hyphenate)
    ELSE IF _measure_text(current, font, size) <= width
         THEN Append(out, current)
         ELSE out \o _split_long_word(current, width, font, size, hyphenate)

\* mutant: every word on a line of its own
WrapParagraph_word_per_line(paragraph, width, font, size, hyphenate) ==
    LET words == SplitWhitespace(paragraph, <<>>)
    IN  IF words = <<>> THEN << <<>> >> ELSE words

WrapParagraph(paragraph, width, font, size, hyphenate) ==
    LET words == SplitWhitespace(paragraph, <<>>)
    IN  IF words = <<>> THEN << <<>> >>
        ELSE WrapWords(Head(words), Tail(words), <<>>, width, font, size, hyphenate)

RECURSIVE WrapParagraphs(_, _, _, _, _)
WrapParagraphs(paragraphs, width, font, size, hyphenate) ==
    IF paragraphs = <<>> THEN <<>>
    ELSE WrapParagraph(Head(paragraphs), width, font, size, hyphenate)
         \o WrapParagraphs(Tail(paragraphs), width, font, size, hyphenate)

\* mutant: paragraphs without words give no line
wrap_text_no_blank_lines(text, width, font, size, hyphenate) ==
    LET paragraphs == SplitNewlines(SelectSeq(text, LAMBDA c : c # "\r"), <<>>)
    IN  WrapParagraphs(SelectSeq(paragraphs, LAMBDA p : SplitWhitespace(p, <<>>) # <<>>),
                       width, font, size, hyphenate)

wrap_text(text, width, font, size, hyphenate) ==
    LET paragraphs == SplitNewlines(SelectSeq(text, LAMBDA c : c # "\r"), <<>>)
    IN  WrapParagraphs(paragraphs, width, font, size, hyphenate)

\* mutant: at most one character is taken off the line
EllipsisLoop_once(line, width, font, size) ==
    IF line # <<>> /\ _measure_text(line \o <<".", ".", ".">>, font, size) > width
    THEN Front(line)
    ELSE line

RECURSIVE EllipsisLoop(_, _, _, _)
EllipsisLoop(line, width, font, size) ==
    IF line # <<>> /\ _measure_text(line \o <<".", ".", ".">>, font, size) > width
    THEN EllipsisLoop(Front(line), width, font, size)
    ELSE line

apply_ellipsis(line, width, font, size) ==
    LET ellipsis == <<".", ".", ".">>
    IN  IF line = <<>> THEN ellipsis
        ELSE LET stripped == EllipsisLoop(line, width, font, size)
             IN  IF stripped # <<>> THEN stripped \o ellipsis ELSE ellipsis

---------------------------------------------------------------------------
(* The data source: an lxml element is [tag, text, children].  xpath() is  *)
(* the library's; the model evaluates the subset the bindings use:         *)
(*     Expr    ::= "string(" Path ")" | Path                               *)
(*     Path    ::= "/" RelPath | RelPath                                   *)
(*     RelPath ::= Step ("/" Step)*        Step ::= name | "."             *)
(* and answers "error" (the library raises) for every other token sequence.*)

Punctuation == {"/", "string(", ")", "["}

IsRelPath(p) ==
    /\ Len(p) % 2 = 1
    /\ \A i \in 1..Len(p) : IF i % 2 = 1 THEN p[i] \notin Punctuation ELSE p[i] = "/"

IsPath(p) ==
    /\ p # <<>>
    /\ IF Head(p) = "/" THEN IsRelPath(Tail(p)) ELSE IsRelPath(p)

ChildrenNamed(node, name) == SelectSeq(node.children, LAMBDA c : c.tag = name)

RECURSIVE EvalSteps(_, _)
EvalSteps(nodes, p) ==
    IF p = <<>> THEN nodes
    ELSE LET step == Head(p)
             next == IF step = "." THEN nodes
                     ELSE Concat([i \in 1..Len(nodes) |-> ChildrenNamed(nodes[i], step)])
             rest == IF Len(p) = 1 THEN <<>> ELSE SubSeq(p, 3, Len(p))
         IN  EvalSteps(next, rest)

\* The document node above the root element, where an absolute path starts.
DocumentOf(root) == [tag |-> "#document", text |-> <<>>, children |-> <<root>>]

EvalPath(context, root, p) ==
    IF Head(p) = "/" THEN EvalSteps(<<DocumentOf(root)>>, Tail(p))
    ELSE EvalSteps(<<context>>, p)

RECURSIVE StringValue(_)
StringValue(node) ==
    node.text \o Concat([i \in 1..Len(node.children) |-> StringValue(node.children[i])])

\* node.xpath(expr), document root `root`
xpath(context, root, expr) ==
    IF expr # <<>> /\ Head(expr) = "string(" /\ Last(expr) = ")"
       /\ IsPath(SubSeq(expr, 2, Len(expr) - 1))
    THEN LET nodes == EvalPath(context, root, SubSeq(expr, 2, Len(expr) - 1))
         IN  [kind |-> "string",
              value |-> IF nodes = <<>> THEN <<>> ELSE StringValue(Head(nodes))]
    ELSE IF IsPath(expr)
    THEN [kind |-> "nodes", nodes |-> EvalPath(context, root, expr)]
    ELSE [kind |-> "error"]

\* XPathBinder.eval_string; `binder` is the binder's root
eval_string(binder, expr) ==
    IF expr = <<>> THEN <<>>
    ELSE LET result == xpath(binder, binder, expr)
         IN  CASE result.kind = "error" -> <<>>
               [] result.kind = "nodes" ->
                    Concat([i \in 1..Len(result.nodes) |-> result.nodes[i].text])
               [] OTHER -> result.value

\* mutant: an expression that yields no node-set yields the root
eval_nodes_root_on_error(binder, expr) ==
    IF expr = <<>> THEN <<>>
    ELSE LET result == xpath(binder, binder, expr)
         IN  IF result.kind = "nodes" THEN result.nodes ELSE <<binder>>

\* XPathBinder.eval_nodes
eval_nodes(binder, expr) ==
    IF expr = <<>> THEN <<>>
    ELSE LET result == xpath(binder, binder, expr)
         IN  IF result.kind = "nodes" THEN result.nodes ELSE <<>>

---------------------------------------------------------------------------
(* Baseline grid and layout context                                        *)

\* mutant: the quotient is cut, not rounded
RoundDiv_floor(n, d) == n \div d

\* Python's round(n / d) for n >= 0, d > 0: to nearest, ties to even.
RoundDiv(n, d) ==
    LET q == n \div d
        r == n % d
    IN  IF 2 * r < d THEN q
        ELSE IF 2 * r > d THEN q + 1
        ELSE IF q % 2 = 0 THEN q ELSE q + 1

\* mutant: the steps are counted from the top of the page, not from the offset
align_from_zero(grid, baseline) ==
    IF grid.leading <= 0 THEN baseline
    ELSE IF baseline <= grid.offset THEN grid.offset
    ELSE grid.offset + RoundDiv(baseline, grid.leading) * grid.leading

\* BaselineGrid.align
align(grid, baseline) ==
    IF grid.leading <= 0 THEN baseline
    ELSE IF baseline <= grid.offset THEN grid.offset
    ELSE grid.offset + RoundDiv(baseline - grid.offset, grid.leading) * grid.leading

\* LayoutContext.__init__, without the page list
LayoutContext(page_width, page_height, margins, baseline_grid) ==
    [page_width |-> page_width,
     page_height |-> page_height,
     margins |-> [l |-> Get(margins, "l", 360), r |-> Get(margins, "r", 360),
                  t |-> Get(margins, "t", 360), b |-> Get(margins, "b", 360)],
     baseline_grid |-> baseline_grid]

\* baseline_grid is a sequence: empty for None, else one BaselineGrid
NoGrid == <<>>

\* mutant: the new page takes the place of the last one
new_page_in_place(pgs) == Append(Front(pgs), <<>>)

new_page(pgs) == Append(pgs, <<>>)

add_op(pgs, op) == [pgs EXCEPT ![Len(pgs)] = Append(@, op)]

RECURSIVE add_ops(_, _)
add_ops(pgs, ops) ==
    IF ops = <<>> THEN pgs ELSE add_ops(add_op(pgs, Head(ops)), Tail(ops))

tl_to_canvas(ctx, x, y) == <<x, ctx.page_height - y>>

baseline_to_canvas(ctx, baseline_from_top) ==
    LET aligned == IF ctx.baseline_grid # NoGrid
                   THEN align(ctx.baseline_grid[1], baseline_from_top)
                   ELSE baseline_from_top
    IN  ctx.page_height - aligned

bottom_limit(ctx) == ctx.page_height - ctx.margins.b

---------------------------------------------------------------------------
(* Element composer.  `self` is [ctx, binder]; the page list self.ctx.pages*)
(* is passed and returned as `pgs`.  A composer returns                    *)
(* [pages, raised]: raised names the exception that leaves it, "" if none. *)
(* The fields elem, part, row, col and line of an op are history fields:   *)
(* they record which element, header or row, column and wrapped line the   *)
(* op was emitted for, and are not part of the op the code emits.          *)

Returned(pgs) == [pages |-> pgs, raised |-> ""]

Raised(pgs, exception) == [pages |-> pgs, raised |-> exception]

\* Python's int(n / d) for d # 0: truncation towards zero.
IntDiv(n, d) ==
    LET an == IF n < 0 THEN -n ELSE n
        ad == IF d < 0 THEN -d ELSE d
    IN  IF (n < 0) = (d < 0) THEN an \div ad ELSE -(an \div ad)

\* mutant: an empty text emits nothing
_compose_text_line_skip_empty(self, pgs, element, text) ==
    IF text = <<>> THEN Returned(pgs)
    ELSE Returned(add_op(pgs,
            [op |-> "text", text |-> text,
             x |-> Get(element, "x", self.ctx.margins.l),
             y |-> self.ctx.page_height - Get(element, "y", self.ctx.margins.t),
             font |-> Get(element, "font", "Helvetica"), size |-> Get(element, "size", 100),
             align |-> Get(element, "align", "left")]))

_compose_text_line(self, pgs, element, text) ==
    LET font == Get(element, "font", "Helvetica")
        size == Get(element, "size", 100)
        x == Get(element, "x", self.ctx.margins.l)
        y == Get(element, "y", self.ctx.margins.t)
        shown == IF Has(element, "max_width") /\ element.max_width > 0
                    /\ _measure_text(text, font, size) > element.max_width
                 THEN apply_ellipsis(text, element.max_width, font, size)
                 ELSE text
        canvas == tl_to_canvas(self.ctx, x, y)
        op == [op |-> "text", text |-> shown, x |-> canvas[1], y |-> canvas[2],
               font |-> font, size |-> size, align |-> Get(element, "align", "left")]
        op_w == IF Has(element, "max_width") THEN op @@ [width |-> element.max_width]
                ELSE op
        op_t == IF Has(element, "tab_leader") /\ element.tab_leader # <<>>
                THEN op_w @@ [tab_leader |-> element.tab_leader,
                              leader_target_x |-> Get(element, "leader_target_x", 0)]
                ELSE op_w
    IN  Returned(add_op(pgs, op_t))

\* mutant: the top padding is left out of the room for lines
BoxMaxLines_no_padding(height, padding_top, leading) ==
    Max({1, IntDiv(height, leading)})

\* max_lines of _compose_text_box, for leading # 0
BoxMaxLines(height, padding_top, leading) ==
    Max({1, IntDiv(height - padding_top, leading)})

\* mutant: the ellipsis flag is not looked at
BoxLines_any_flag(wrapped_lines, max_lines, ellipsis, effective_width, font, size) ==
    IF Len(wrapped_lines) > max_lines
    THEN LET truncated == SubSeq(wrapped_lines, 1, max_lines)
         IN  [truncated EXCEPT ![Len(truncated)] =
                  apply_ellipsis(@, effective_width, font, size)]
    ELSE wrapped_lines

\* the lines _compose_text_box keeps of wrapped_lines
BoxLines(wrapped_lines, max_lines, ellipsis, effective_width, font, size) ==
    IF Len(wrapped_lines) > max_lines
    THEN LET truncated == SubSeq(wrapped_lines, 1, max_lines)
         IN  IF ellipsis /\ truncated # <<>>
             THEN [truncated EXCEPT ![Len(truncated)] =
                       apply_ellipsis(@, effective_width, font, size)]
             ELSE truncated
    ELSE wrapped_lines

\* `not width or not height`: a missing key (None) and 0 are falsy
BoxHasNoSize(element) ==
    \/ ~Has(element, "width") \/ element.width = 0
    \/ ~Has(element, "height") \/ element.height = 0

_compose_text_box(self, pgs, element, text) ==
    LET font == Get(element, "font", "Helvetica")
        size == Get(element, "size", 100)
        leading == Get(element, "leading", (size * 12) \div 10)
        hyphenate == Get(element, "hyphenate", TRUE)
        ellipsis == Get(element, "ellipsis", TRUE)
        padding_top == Get(element, "padding_top", 0)
        padding_left == Get(element, "padding_left", 0)
        padding_right == Get(element, "padding_right", 0)
        effective_width == Max({0, element.width - (padding_left + padding_right)})
        wrapped_lines == wrap_text(text, effective_width, font, size, hyphenate)
        kept == BoxLines(wrapped_lines,
                         BoxMaxLines(element.height, padding_top, leading),
                         ellipsis, effective_width, font, size)
        base_top == Get(element, "y", self.ctx.margins.t) + padding_top + size
        x_base == Get(element, "x", self.ctx.margins.l) + padding_left
        ops == [idx \in 1..Len(kept) |->
                  [op |-> "text", text |-> kept[idx], x |-> x_base,
                   y |-> baseline_to_canvas(self.ctx, base_top + (idx - 1) * leading),
                   font |-> font, size |-> size,
                   align |-> Get(element, "align", "left"),
                   width |-> effective_width]]
    IN  IF BoxHasNoSize(element) THEN Returned(pgs)
        ELSE IF leading = 0 THEN Raised(pgs, "ZeroDivisionError")
        ELSE Returned(add_ops(pgs, ops))

_compose_image(self, pgs, element) ==
    IF ~Has(element, "path") \/ element.path = <<>> THEN Returned(pgs)
    ELSE IF BoxHasNoSize(element) THEN Returned(pgs)
    ELSE LET x == Get(element, "x", self.ctx.margins.l)
             y == Get(element, "y", self.ctx.margins.t)
             canvas == tl_to_canvas(self.ctx, x, y + element.height)
         IN  Returned(add_op(pgs, [op |-> "image", path |-> element.path,
                                   x |-> canvas[1], y |-> canvas[2],
                                   width |-> element.width,
                                   height |-> element.height]))

_compose_rule(self, pgs, element) ==
    LET p1 == tl_to_canvas(self.ctx, Get(element, "x1", 0), Get(element, "y1", 0))
        p2 == tl_to_canvas(self.ctx, Get(element, "x2", 0), Get(element, "y2", 0))
    IN  Returned(add_op(pgs, [op |-> "line", x1 |-> p1[1], y1 |-> p1[2],
                              x2 |-> p2[1], y2 |-> p2[2],
                              width |-> Get(element, "width", 5)]))

---------------------------------------------------------------------------
(* Repeating table paginator                                               *)

EmptyDict == [k \in {} |-> 0]

\* the locals _compose_repeating_table computes before its closures
TableLocals(self, element) ==
    LET padding == Get(element, "padding", EmptyDict)
        header_size == Get(element, "header_size", 90)
        row_size == Get(element, "row_size", 90)
        row_leading == Get(element, "row_leading", (row_size * 12) \div 10)
        columns == Get(element, "columns", <<>>)
    IN  [columns |-> columns,
         x_origin |-> Get(element, "x", self.ctx.margins.l),
         y_origin |-> Get(element, "y", self.ctx.margins.t),
         padding_top |-> Get(padding, "top", 20),
         padding_bottom |-> Get(padding, "bottom", 20),
         padding_left |-> Get(padding, "left", 20),
         padding_right |-> Get(padding, "right", 20),
         header_font |-> Get(element, "header_font", "Helvetica-Bold"),
         header_size |-> header_size,
         header_leading |-> Get(element, "header_leading", (header_size * 12) \div 10),
         row_font |-> Get(element, "row_font", "Helvetica"),
         row_size |-> row_size,
         row_leading |-> row_leading,
         column_widths |-> [i \in 1..Len(columns) |-> Get(columns[i], "width", 600)],
         col_aligns |-> [i \in 1..Len(columns) |-> Get(columns[i], "align", "left")],
         col_bindings |-> [i \in 1..Len(columns) |-> Get(columns[i], "binding", <<>>)],
         header_gap |-> Get(element, "header_gap", row_leading)]

\* x_cursor when column idx (from 1) is reached
RECURSIVE XCursor(_, _)
XCursor(t, idx) ==
    IF idx = 1 THEN t.x_origin ELSE XCursor(t, idx - 1) + t.column_widths[idx - 1]

\* y_cursor of the first row of a page
FirstRowY(t) == t.y_origin + t.header_leading + t.header_gap

\* the header row: one op per column (lines 352-369)
HeaderOps(self, element) ==
    LET t == TableLocals(self, element)
        baseline == baseline_to_canvas(self.ctx, t.y_origin + t.header_leading)
    IN  [idx \in 1..Len(t.columns) |->
           [op |-> "text", text |-> Get(t.columns[idx], "header", <<>>),
            x |-> XCursor(t, idx) + t.padding_left, y |-> baseline,
            font |-> t.header_font, size |-> t.header_size,
            align |-> t.col_aligns[idx],
            width |-> t.column_widths[idx] - (t.padding_left + t.padding_right),
            part |-> "header", col |-> idx - 1]]

\* mutant: the header is emitted on the page where the table starts only
render_header_first_page_only(self, pgs, element, page_index) ==
    IF page_index = 0 THEN add_ops(pgs, HeaderOps(self, element)) ELSE pgs

render_header(self, pgs, element, page_index) == add_ops(pgs, HeaderOps(self, element))

\* mutant: a relative binding is evaluated against the document root
CellText_from_root(self, row_node, binding) ==
    IF binding = <<>> THEN [raised |-> "", text |-> <<>>]
    ELSE IF Head(binding) = "/"
    THEN [raised |-> "", text |-> eval_string(self.binder, binding)]
    ELSE LET expr == IF Head(binding) = "." THEN binding ELSE <<".", "/">> \o binding
             value == xpath(self.binder, self.binder, expr)
         IN  CASE value.kind = "error" -> [raised |-> "XPathEvalError", text |-> <<>>]
               [] value.kind = "nodes" ->
                    [raised |-> "",
                     text |-> Join(<<" ">>,
                                   SelectSeq([i \in 1..Len(value.nodes) |-> value.nodes[i].text],
                                             LAMBDA v : v # <<>>))]
               [] OTHER -> [raised |-> "", text |-> value.value]

\* text_value of one cell of render_row: [raised, text]
CellText(self, row_node, binding) ==
    IF binding = <<>> THEN [raised |-> "", text |-> <<>>]
    ELSE IF Head(binding) = "/"
    THEN [raised |-> "", text |-> eval_string(self.binder, binding)]
    ELSE LET expr == IF Head(binding) = "." THEN binding ELSE <<".", "/">> \o binding
             value == xpath(row_node, self.binder, expr)
         IN  CASE value.kind = "error" -> [raised |-> "XPathEvalError", text |-> <<>>]
               [] value.kind = "nodes" ->
                    [raised |-> "",
                     text |-> Join(<<" ">>,
                                   SelectSeq([i \in 1..Len(value.nodes) |-> value.nodes[i].text],
                                             LAMBDA v : v # <<>>))]
               [] OTHER -> [raised |-> "", text |-> value.value]

\* mutant: a row that ends exactly on the bottom limit is moved too
RowOverflows_at_limit(self, y_start, row_height) ==
    y_start + row_height >= bottom_limit(self.ctx)

\* `y_start + row_height > self.ctx.bottom_limit`
RowOverflows(self, y_start, row_height) == y_start + row_height > bottom_limit(self.ctx)

\* mutant: the ops of one row, the last column first
RowOps_last_column_first(self, t, cell_lines, row_index, y_start) ==
    Concat([d \in 1..Len(cell_lines) |->
              LET c == Len(cell_lines) + 1 - d
              IN  [l \in 1..Len(cell_lines[c]) |->
                     [op |-> "text", text |-> cell_lines[c][l],
                      x |-> XCursor(t, c) + t.padding_left,
                      y |-> baseline_to_canvas(self.ctx,
                                y_start + t.padding_top + ((l - 1) * t.row_leading)
                                + t.row_size),
                      font |-> t.row_font, size |-> t.row_size,
                      align |-> t.col_aligns[c],
                      width |-> t.column_widths[c] - (t.padding_left + t.padding_right),
                      part |-> "row", row |-> row_index, col |-> c - 1, line |-> l - 1]]])

\* the ops of one row, column by column and line by line
RowOps(self, t, cell_lines, row_index, y_start) ==
    Concat([c \in 1..Len(cell_lines) |->
              [l \in 1..Len(cell_lines[c]) |->
                 [op |-> "text", text |-> cell_lines[c][l],
                  x |-> XCursor(t, c) + t.padding_left,
                  y |-> baseline_to_canvas(self.ctx,
                            y_start + t.padding_top + ((l - 1) * t.row_leading) + t.row_size),
                  font |-> t.row_font, size |-> t.row_size,
                  align |-> t.col_aligns[c],
                  width |-> t.column_widths[c] - (t.padding_left + t.padding_right),
                  part |-> "row", row |-> row_index, col |-> c - 1, line |-> l - 1]]])

\* the cells of one row (lines 372-394): [raised, cell_lines]; the first
\* cell whose binding raises ends the loop
\* the wrapped lines of the cells, unless a binding raised (lines 387-394)
CellLines(self, t, cells, failed) ==
    IF failed # {}
    THEN [raised |-> cells[CHOOSE c \in failed : \A d \in failed : c <= d].raised,
          cell_lines |-> <<>>]
    ELSE [raised |-> "",
          cell_lines |-> [c \in 1..Len(t.columns) |->
                            wrap_text(cells[c].text,
                                      t.column_widths[c] - (t.padding_left + t.padding_right),
                                      t.row_font, t.row_size, TRUE)]]

\* the columns whose binding raised
FailedCells(cells) == {c \in 1..Len(cells) : cells[c].raised # ""}

\* text_value of every column of the row
CellTexts(self, t, row_node) ==
    [c \in 1..Len(t.columns) |-> CellText(self, row_node, t.col_bindings[c])]

RowCells(self, t, row_node) ==
    CellLines(self, t, CellTexts(self, t, row_node), FailedCells(CellTexts(self, t, row_node)))

\* row_height of render_row (lines 373, 394, 396)
RowHeight(t, cell_lines) ==
    Max({1} \cup {Len(cell_lines[c]) : c \in 1..Len(cell_lines)}) * t.row_leading
    + t.padding_top + t.padding_bottom

\* mutant: the overflow test is made for each line, so the lines of a row
\* whose baseline is beyond the bottom limit move to the next page
render_row_by_line(self, pgs, element, row_node, row_index, y_start) ==
    LET t == TableLocals(self, element)
        cells == RowCells(self, t, row_node)
        row_height == RowHeight(t, cells.cell_lines)
        ops == RowOps(self, t, cells.cell_lines, row_index, y_start)
        Fits(o) == y_start + t.padding_top + (o.line * t.row_leading) + t.row_size
                   <= bottom_limit(self.ctx)
        here == SelectSeq(ops, Fits)
        there == SelectSeq(ops, LAMBDA o : ~Fits(o))
    IN  IF cells.raised # ""
        THEN [pages |-> pgs, y |-> y_start, raised |-> cells.raised]
        ELSE IF there = <<>>
        THEN [pages |-> add_ops(pgs, ops), y |-> y_start + row_height, raised |-> ""]
        ELSE [pages |-> add_ops(add_ops(new_page(add_ops(pgs, here)),
                                        HeaderOps(self, element)), there),
              y |-> FirstRowY(t) + row_height, raised |-> ""]

\* mutant: a row that overflows is tested again on the page it was moved to,
\* so a row higher than a page opens a second page
RowEmit_again_on_new_page(self, pgs, element, row_index, y_start, t, cell_lines, row_height) ==
    IF RowOverflows(self, y_start, row_height)
    THEN [pages |-> add_ops(render_header(self,
                                          IF RowOverflows(self, FirstRowY(t), row_height)
                                          THEN new_page(new_page(pgs)) ELSE new_page(pgs),
                                          element, Len(pgs)),
                            RowOps(self, t, cell_lines, row_index, FirstRowY(t))),
          y |-> FirstRowY(t) + row_height, raised |-> ""]
    ELSE [pages |-> add_ops(pgs, RowOps(self, t, cell_lines, row_index, y_start)),
          y |-> y_start + row_height, raised |-> ""]

\* lines 396-420 of render_row, the cells being wrapped
RowEmit(self, pgs, element, row_index, y_start, t, cell_lines, row_height) ==
    IF RowOverflows(self, y_start, row_height)
    THEN [pages |-> add_ops(render_header(self, new_page(pgs), element, Len(pgs)),
                            RowOps(self, t, cell_lines, row_index, FirstRowY(t))),
          y |-> FirstRowY(t) + row_height, raised |-> ""]
    ELSE [pages |-> add_ops(pgs, RowOps(self, t, cell_lines, row_index, y_start)),
          y |-> y_start + row_height, raised |-> ""]

\* render_row once the cells are computed: an exception raised in the cell
\* loop leaves the pages as they are
RowOutcome(self, pgs, element, row_index, y_start, t, cells) ==
    IF cells.raised # ""
    THEN [pages |-> pgs, y |-> y_start, raised |-> cells.raised]
    ELSE RowEmit(self, pgs, element, row_index, y_start, t, cells.cell_lines,
                 RowHeight(t, cells.cell_lines))

\* render_row: [pages, y, raised], y the returned y_start + row_height
render_row(self, pgs, element, row_node, row_index, y_start) ==
    RowOutcome(self, pgs, element, row_index, y_start, TableLocals(self, element),
               RowCells(self, TableLocals(self, element), row_node))

---------------------------------------------------------------------------
(* compose()                                                               *)

\* lines 429-441: the LayoutContext compose() builds from the template
ComposeContext(tpl) ==
    LET page_config == Get(tpl, "page", EmptyDict)
        margins == Get(page_config, "margins", EmptyDict)
        baseline_conf == Get(page_config, "baseline", EmptyDict)
        leading == Get(baseline_conf, "leading", 0)
        offset == Get(baseline_conf, "offset", Get(margins, "t", 360))
    IN  LayoutContext(Get(page_config, "width", 6120),
                      Get(page_config, "height", 7920),
                      margins,
                      IF DOMAIN baseline_conf # {} /\ leading # 0
                      THEN <<[leading |-> leading, offset |-> offset]>>
                      ELSE NoGrid)

\* the ElementComposer of the call under way
Self == [ctx |-> ComposeContext(template), binder |-> xml_root]

Elements == Get(template, "elements", <<>>)

Element == Elements[elem]

ElementTypes == {"StaticText", "DynamicText", "TextBox", "Image", "Rule", "RepeatingTable"}

\* history: the ops emitted for element i carry elem = i
Stamp(pgs, i) ==
    [p \in 1..Len(pgs) |->
       [k \in 1..Len(pgs[p]) |->
          IF Has(pgs[p][k], "elem") THEN pgs[p][k] ELSE pgs[p][k] @@ [elem |-> i]]]

AtElement(etype) ==
    /\ pc = "elements"
    /\ elem <= Len(Elements)
    /\ Get(Element, "type", "None") = etype

\* a composer returned or raised
Composed(outcome) ==
    IF outcome.raised # ""
    THEN /\ pc' = "raised"
         /\ raised' = outcome.raised
         /\ UNCHANGED <<pages, elem>>
    ELSE /\ pages' = Stamp(outcome.pages, elem)
         /\ elem' = elem + 1
         /\ UNCHANGED <<pc, raised>>

ComposeStaticText ==
    /\ AtElement("StaticText")
    /\ Composed(_compose_text_line(Self, pages, Element, Get(Element, "text", <<>>)))
    /\ UNCHANGED <<template, xml_root, rows, row_idx, y_cursor, callVars>>

ComposeDynamicText ==
    /\ AtElement("DynamicText")
    /\ Composed(_compose_text_line(Self, pages, Element,
                    eval_string(Self.binder, Get(Element, "binding", <<>>))))
    /\ UNCHANGED <<template, xml_root, rows, row_idx, y_cursor, callVars>>

ComposeTextBox ==
    /\ AtElement("TextBox")
    /\ LET value == IF Has(Element, "text") THEN Element.text
                    ELSE eval_string(Self.binder, Get(Element, "binding", <<>>))
       IN  Composed(_compose_text_box(Self, pages, Element, value))
    /\ UNCHANGED <<template, xml_root, rows, row_idx, y_cursor, callVars>>

ComposeImage ==
    /\ AtElement("Image")
    /\ Composed(_compose_image(Self, pages, Element))
    /\ UNCHANGED <<template, xml_root, rows, row_idx, y_cursor, callVars>>

ComposeRule ==
    /\ AtElement("Rule")
    /\ Composed(_compose_rule(Self, pages, Element))
    /\ UNCHANGED <<template, xml_root, rows, row_idx, y_cursor, callVars>>

\* mutant: an element no branch matches is an error
ComposeOther_raises ==
    /\ pc = "elements"
    /\ elem <= Len(Elements)
    /\ Get(Element, "type", "None") \notin ElementTypes
    /\ pc' = "raised"
    /\ raised' = "ValueError"
    /\ UNCHANGED <<template, xml_root, elem, pages, rows, row_idx, y_cursor, callVars>>

\* no branch of ElementComposer.compose matches
ComposeOther ==
    /\ pc = "elements"
    /\ elem <= Len(Elements)
    /\ Get(Element, "type", "None") \notin ElementTypes
    /\ elem' = elem + 1
    /\ UNCHANGED <<template, xml_root, pc, pages, rows, row_idx, y_cursor, raised, callVars>>

\* _compose_repeating_table up to its for loop (lines 321-349, 422-423)
ComposeRepeatingTable ==
    /\ AtElement("RepeatingTable")
    /\ LET found == eval_nodes(Self.binder, Get(Element, "binding", <<>>))
       IN  IF found = <<>> \/ Get(Element, "columns", <<>>) = <<>>
           THEN /\ elem' = elem + 1
                /\ UNCHANGED <<pc, pages, rows, row_idx, y_cursor>>
           ELSE /\ pages' = Stamp(render_header(Self, pages, Element, 0), elem)
                /\ rows' = found
                /\ row_idx' = 0
                /\ y_cursor' = FirstRowY(TableLocals(Self, Element))
                /\ pc' = "rows"
                /\ UNCHANGED elem
    /\ UNCHANGED <<template, xml_root, raised, callVars>>

\* one iteration of the for loop of _compose_repeating_table (lines 424-425);
\* after the last row the composer returns
\* `y_cursor = render_row(node, idx, y_cursor)`, or the exception propagates
RowDone(outcome) ==
    IF outcome.raised # ""
    THEN /\ pc' = "raised"
         /\ raised' = outcome.raised
         /\ UNCHANGED <<pages, elem, row_idx, y_cursor>>
    ELSE /\ pages' = Stamp(outcome.pages, elem)
         /\ y_cursor' = outcome.y
         /\ row_idx' = row_idx + 1
         /\ IF row_idx + 1 = Len(rows)
            THEN pc' = "elements" /\ elem' = elem + 1
            ELSE UNCHANGED <<pc, elem>>
         /\ UNCHANGED raised

ComposeRow ==
    /\ pc = "rows"
    /\ row_idx < Len(rows)
    /\ RowDone(render_row(Self, pages, Element, rows[row_idx + 1], row_idx, y_cursor))
    /\ UNCHANGED <<template, xml_root, rows, callVars>>

\* `return context.pages`
Return ==
    /\ pc = "elements"
    /\ elem > Len(Elements)
    /\ pc' = "done"
    /\ UNCHANGED <<template, xml_root, elem, pages, rows, row_idx, y_cursor, raised, callVars>>

---------------------------------------------------------------------------
(* Inputs: the templates and data sources compose() is run on              *)

MaxRows == 3        \* most <Item> rows in a data source
MaxFill == 1        \* most elements declared before the element under study
MaxTextLen == 5     \* longest text handed to wrap_text directly

Aa == <<"a", "a">>
AaAa == <<"a", "a", " ", "a", "a">>
ThreeWords == <<"a", "a", " ", "a", "a", " ", "a", "a">>
LongFirst == <<"a", "a", "a", "a", " ", "a">>

Leaf(tag, text) == [tag |-> tag, text |-> text, children |-> <<>>]

Item(a) == [tag |-> "Item", text |-> <<>>,
            children |-> <<Leaf("A", a), Leaf("B", <<"a">>)>>]

Doc(items) == [tag |-> "Doc", text |-> <<>>,
               children |-> <<Leaf("T", Aa)>> \o items]

\* the rows of a data source: n rows whose A is "aa" (one wrapped line in a
\* 140 wide column), n rows whose A is "aa aa" (two lines), or one row of
\* two lines among rows of one
RowSeqs(n) ==
    {[i \in 1..n |-> Item(Aa)], [i \in 1..n |-> Item(AaAa)]}
    \cup {[i \in 1..n |-> IF i = k THEN Item(AaAa) ELSE Item(Aa)] : k \in 1..n}

\* <Doc><T>aa</T><Item><A>..</A><B>a</B></Item>...</Doc>
XmlRoots == {Doc(items) : items \in UNION {RowSeqs(n) : n \in 0..MaxRows}}

PathItems == <<"/", "Doc", "/", "Item">>
PathT == <<"/", "Doc", "/", "T">>
PathNoMatch == <<"/", "Doc", "/", "X">>
PathBad == <<"[">>
PathAbsBad == <<"/", "[">>
StringT == <<"string(">> \o PathT \o <<")">>

\* bottom limits 430, 600 and 730 leave room for 1, 2 and 3 one-line rows of
\* TableOf; the last page has a baseline grid and the default margins
Pages ==
    {[width |-> 2000, height |-> h, margins |-> [t |-> 100, b |-> 100]] : h \in {530, 700, 830}}
    \cup {[width |-> 2000, height |-> 1000, baseline |-> [leading |-> 120, offset |-> 200]]}

StaticTexts ==
    {[type |-> "StaticText", text |-> AaAa, x |-> 100, y |-> 200],
     [type |-> "StaticText", text |-> AaAa, y |-> 2000],
     [type |-> "StaticText", text |-> AaAa, x |-> 100, y |-> 200, max_width |-> 150]}

DynamicTexts ==
    {[type |-> "DynamicText", x |-> 100, y |-> 300]}
    \cup {[type |-> "DynamicText", x |-> 100, y |-> 300, binding |-> b] :
            b \in {<<>>, PathBad, PathNoMatch, PathT, StringT}}

BoxAt == [type |-> "TextBox", x |-> 100, y |-> 150]

\* size 100: "aa" measures 100, so a 100 wide box holds one word per line
TextBoxes ==
    {BoxAt @@ [text |-> ThreeWords, width |-> 100, height |-> h, ellipsis |-> e] :
        h \in {60, 240, 480}, e \in BOOLEAN}
    \cup {BoxAt @@ [text |-> ThreeWords, width |-> 100, height |-> 240, padding_top |-> 130],
          BoxAt @@ [text |-> ThreeWords, width |-> 100, height |-> 60, padding_top |-> 130],
          BoxAt @@ [text |-> Aa, width |-> 100, height |-> 60],
          [type |-> "TextBox", x |-> 100, y |-> 0, text |-> ThreeWords, width |-> 100,
           height |-> 480],
          BoxAt @@ [text |-> ThreeWords, width |-> 160, height |-> 360, leading |-> 130,
                    padding_left |-> 30, padding_right |-> 30],
          BoxAt @@ [binding |-> StringT, width |-> 100, height |-> 240],
          BoxAt @@ [binding |-> PathBad, width |-> 100, height |-> 240],
          BoxAt @@ [text |-> LongFirst, width |-> 100, height |-> 240],
          BoxAt @@ [text |-> LongFirst, width |-> 100, height |-> 240, hyphenate |-> FALSE],
          BoxAt @@ [text |-> ThreeWords, width |-> 100, height |-> 240, leading |-> 0],
          BoxAt @@ [text |-> ThreeWords, height |-> 240],
          BoxAt @@ [text |-> ThreeWords, width |-> 100],
          BoxAt @@ [text |-> ThreeWords, width |-> 0, height |-> 240],
          BoxAt @@ [text |-> ThreeWords, width |-> 100, height |-> 0],
          BoxAt @@ [text |-> ThreeWords, width |-> -100, height |-> 240],
          BoxAt @@ [text |-> ThreeWords, width |-> 100, height |-> -120]}

ImageAt == [type |-> "Image", x |-> 100, y |-> 100]

Images ==
    {ImageAt @@ [path |-> <<"a">>, width |-> 100, height |-> 100],
     ImageAt @@ [width |-> 100, height |-> 100],
     ImageAt @@ [path |-> <<"a">>, height |-> 100],
     ImageAt @@ [path |-> <<"a">>, width |-> 100],
     ImageAt @@ [path |-> <<"a">>, width |-> 0, height |-> 100],
     ImageAt @@ [path |-> <<"a">>, width |-> 100, height |-> 0],
     ImageAt @@ [path |-> <<"a">>, width |-> -50, height |-> 100],
     ImageAt @@ [path |-> <<"a">>, width |-> 100, height |-> -50]}

Rules == {[type |-> "Rule", x1 |-> 100, y1 |-> 100, x2 |-> 500, y2 |-> 100]}

Others == {[type |-> "Bogus", x |-> 100, y |-> 100], [x |-> 100, y |-> 100]}

ColA == [header |-> <<"a">>, binding |-> <<"A">>, width |-> 140]
ColB == [header |-> <<"W">>, binding |-> <<"B">>]

ColumnSets ==
    {<<ColA>>,
     <<ColA, ColB>>,
     <<ColA, [header |-> <<"W">>, binding |-> PathT, width |-> 300]>>,
     <<ColA, [header |-> <<"W">>, binding |-> PathBad, width |-> 300]>>,
     <<[header |-> <<"W">>, binding |-> PathAbsBad, width |-> 300]>>,
     <<[header |-> <<"W">>, binding |-> PathNoMatch, width |-> 300], ColA>>,
     <<[header |-> <<"W">>, width |-> 300]>>,
     <<[header |-> <<"a">>, binding |-> <<".", "/", "A">>, width |-> 140]>>,
     <<>>}

\* first row at 100 + 120 + 60 = 280; a row of n lines is n * 110 + 40 high
TableAt == [type |-> "RepeatingTable", x |-> 100, y |-> 100, row_size |-> 90,
            row_leading |-> 110, header_size |-> 100, header_leading |-> 120,
            header_gap |-> 60]

TableOf(binding, columns) == TableAt @@ [binding |-> binding, columns |-> columns]

Tables ==
    {TableOf(PathItems, cols) : cols \in ColumnSets}
    \cup {TableOf(b, <<ColA>>) : b \in {<<>>, PathBad, PathNoMatch, StringT}}
    \cup {TableAt @@ [columns |-> <<ColA>>],
          TableAt @@ [binding |-> PathItems],
          [type |-> "RepeatingTable", binding |-> PathItems, columns |-> <<ColA, ColB>>]}

Simple == StaticTexts \cup DynamicTexts \cup TextBoxes \cup Images \cup Rules \cup Others

\* elements declared before and after the element under study
Fillers == {[type |-> "StaticText", text |-> Aa, x |-> 300, y |-> 50],
            TableOf(PathItems, <<ColA>>)}

\* up to MaxFill copies of one filler
Before == {<<>>} \cup {[i \in 1..n |-> f] : f \in Fillers, n \in 1..MaxFill}

After == {<<>>, <<[type |-> "StaticText", text |-> Aa, x |-> 300, y |-> 80]>>}

\* a table has elements before it or after it
Around == {<<before, <<>>>> : before \in Before} \cup {<<<<>>, after>> : after \in After}

PlainPage == [width |-> 2000, height |-> 700, margins |-> [t |-> 100, b |-> 100]]

GridPage == [width |-> 2000, height |-> 1000, baseline |-> [leading |-> 120, offset |-> 200]]

TemplateOf(page, before, e, after) ==
    [page |-> page, elements |-> before \o <<e>> \o after]

\* ten one-line rows on a page with room for six (bottom limit 1190)
TenRowPage == [width |-> 2000, height |-> 1290, margins |-> [t |-> 100, b |-> 100]]

\* tables run on every page and data source, the other elements on two
\* pages and two data sources; two templates without elements; and the
\* ten-row table
ComposeInputs ==
    \/ /\ template \in {[page |-> PlainPage], [page |-> PlainPage, elements |-> <<>>]}
       /\ xml_root = Doc(<<>>)
    \/ \E p \in Pages, around \in Around, e \in Tables :
          /\ template = TemplateOf(p, around[1], e, around[2])
          /\ xml_root \in XmlRoots
    \/ \E p \in {PlainPage, GridPage}, before \in Before, e \in Simple, after \in After :
          /\ template = TemplateOf(p, before, e, after)
          /\ xml_root \in {Doc(<<>>), Doc(<<Item(Aa), Item(AaAa)>>)}
    \/ /\ template = TemplateOf(TenRowPage, <<>>, TableOf(PathItems, <<ColA, ColB>>), <<>>)
       /\ xml_root = Doc([i \in 1..10 |-> Item(Aa)])

---------------------------------------------------------------------------
(* Specification of one compose() call                                     *)

NoCall == [fn |-> "none"]

Init ==
    /\ ComposeInputs
    /\ pc = "elements"
    /\ elem = 1
    /\ pages = << <<>> >>
    /\ rows = <<>>
    /\ row_idx = 0
    /\ y_cursor = 0
    /\ raised = ""
    /\ call = NoCall
    /\ ret = <<>>
    /\ wpc = "idle"

Next ==
    \/ ComposeStaticText
    \/ ComposeDynamicText
    \/ ComposeTextBox
    \/ ComposeImage
    \/ ComposeRule
    \/ ComposeOther
    \/ ComposeRepeatingTable
    \/ ComposeRow
    \/ Return

Spec == Init /\ [][Next]_vars

\* where compose() is: the position, the element and the row it is at
position == <<pc, elem, row_idx>>

\* the position moves on: every step of Next is such a step
Advance ==
    /\ pc \in {"elements", "rows"}
    /\ pc' \in {"elements", "rows", "done", "raised"}
    /\ elem' \in {elem, elem + 1}
    /\ row_idx' \in {0, row_idx, row_idx + 1}

\* compose() is one sequential call: as long as it has neither returned nor
\* raised, it goes on to its next statement
FairSpec == Spec /\ WF_position(Advance)

\* every step of compose() moves the position
StepsAdvance == [][Next => <<Advance>>_position]_vars

---------------------------------------------------------------------------
(* Specification of direct calls of the text-layout functions: the         *)
(* arguments are drawn from bounded sets and the call returns in one step. *)

Glyphs == {"a", "W", " ", "\n"}

Texts == UNION {[1..n -> Glyphs] : n \in 0..MaxTextLen}

\* size 100: "a" measures 50, "W" 100, " " and "-" 30
Widths == {-10, 0, 50, 80, 130, 180, 260}

NoCompose ==
    /\ template = [page |-> PlainPage]
    /\ xml_root = Doc(<<>>)
    /\ pc = "idle"
    /\ elem = 1
    /\ pages = << <<>> >>
    /\ rows = <<>>
    /\ row_idx = 0
    /\ y_cursor = 0
    /\ raised = ""

WrapInit ==
    /\ NoCompose
    /\ \E text \in Texts, width \in Widths, hyphenate \in BOOLEAN :
          call = [fn |-> "wrap_text", text |-> text, width |-> width,
                  font |-> "Helvetica", size |-> 100, hyphenate |-> hyphenate]
    /\ ret = <<>>
    /\ wpc = "call"

CallWrapText ==
    /\ wpc = "call"
    /\ call.fn = "wrap_text"
    /\ ret' = wrap_text(call.text, call.width, call.font, call.size, call.hyphenate)
    /\ wpc' = "returned"
    /\ UNCHANGED <<call, composeVars>>

WrapNext == CallWrapText

WrapSpec == WrapInit /\ [][WrapNext]_vars

---------------------------------------------------------------------------
(* Properties of compose()                                                 *)

Ctx == Self.ctx

\* the ops page p holds for element e
OpsOf(p, e) == SelectSeq(pages[p], LAMBDA o : o.elem = e)

\* the pages that hold an op of element e
PagesOf(e) == {p \in 1..Len(pages) : OpsOf(p, e) # <<>>}

IsRowOp(o, e, r) == o.elem = e /\ Get(o, "part", "none") = "row" /\ o.row = r

IsHeaderOp(o, e, c) == o.elem = e /\ Get(o, "part", "none") = "header" /\ o.col = c

\* the pages that hold an op of row r of table element e
PagesOfRow(e, r) ==
    {p \in 1..Len(pages) : \E k \in 1..Len(pages[p]) : IsRowOp(pages[p][k], e, r)}

RowNumbers == 0..Len(xml_root.children)

IsTable(e) == Get(Elements[e], "type", "None") = "RepeatingTable"

\* C1: all the ops emitted for one row of a RepeatingTable (every wrapped
\* line of every column) are on one and the same page: a page break falls
\* between two rows, never inside a row.
C1_RowOnOnePage ==
    \A e \in 1..Len(Elements), r \in RowNumbers : Cardinality(PagesOfRow(e, r)) <= 1

\* C1 witness: a row moved whole to a later page only because column 0
\* wrapped to two lines: the page before holds n one-line rows, a one-line
\* row would still have fitted below them, and both lines of column 0 and
\* the one line of column 1 are on the later page.
C1_Witness ==
    \E e \in 1..Len(Elements), r \in RowNumbers, p \in 2..Len(pages) :
        /\ IsTable(e)
        /\ PagesOfRow(e, r) = {p}
        /\ \E k \in 1..Len(pages[p]) :
              IsRowOp(pages[p][k], e, r) /\ pages[p][k].col = 0 /\ pages[p][k].line = 1
        /\ \E k \in 1..Len(pages[p]) :
              IsRowOp(pages[p][k], e, r) /\ pages[p][k].col = 1 /\ pages[p][k].line = 0
        /\ LET t == TableLocals(Self, Elements[e])
               before == {q \in RowNumbers : PagesOfRow(e, q) = {p - 1}}
               one_line == t.row_leading + t.padding_top + t.padding_bottom
           IN  /\ before # {}
               /\ \A q \in before : \A k \in 1..Len(pages[p - 1]) :
                     IsRowOp(pages[p - 1][k], e, q) => pages[p - 1][k].line = 0
               /\ FirstRowY(t) + (Cardinality(before) + 1) * one_line <= bottom_limit(Ctx)

\* the positions <<p, k>> of the header ops of column c of table element e
HeaderPositions(e, c) ==
    UNION {{<<p, k>> : k \in {j \in 1..Len(pages[p]) : IsHeaderOp(pages[p][j], e, c)}} :
             p \in 1..Len(pages)}

ColumnsOf(e) == Get(Elements[e], "columns", <<>>)

\* C2: the header row of a RepeatingTable (one op per column, carrying the
\* column's header text) is emitted once on every page the table's content
\* is on and nowhere else, so the number of header rows equals the number
\* of pages the table spans; when the table is the template's only element
\* it equals the number of pages compose() returns.
C2_HeaderOncePerPage ==
    /\ \A e \in 1..Len(Elements) : IsTable(e) =>
          \A c \in 0..(Len(ColumnsOf(e)) - 1) :
             /\ \A p \in 1..Len(pages) :
                   Cardinality({k \in 1..Len(pages[p]) : IsHeaderOp(pages[p][k], e, c)})
                   = IF p \in PagesOf(e) THEN 1 ELSE 0
             /\ \A pos \in HeaderPositions(e, c) :
                   pages[pos[1]][pos[2]].text = Get(ColumnsOf(e)[c + 1], "header", <<>>)
             /\ Cardinality(HeaderPositions(e, c)) = Cardinality(PagesOf(e))
    /\ (pc = "done" /\ Len(Elements) = 1 /\ IsTable(1) /\ PagesOf(1) # {}) =>
          \A c \in 0..(Len(ColumnsOf(1)) - 1) :
             Cardinality(HeaderPositions(1, c)) = Len(pages)

\* C2 witness: compose() returned three pages for a template whose only
\* element is a two-column table, with three header rows.
C2_Witness ==
    /\ pc = "done"
    /\ Len(Elements) = 1
    /\ IsTable(1)
    /\ Len(ColumnsOf(1)) = 2
    /\ Len(pages) = 3
    /\ Cardinality(HeaderPositions(1, 1)) = 3

\* element e has been composed: the for loop of compose() is past it
Done(e) == e < elem \/ pc = "done"

\* the positions <<p, k>> of the ops of element e
OpPositions(e) ==
    UNION {{<<p, k>> : k \in {j \in 1..Len(pages[p]) : pages[p][j].elem = e}} :
             p \in 1..Len(pages)}

\* the ops of element e in page order
OpsOfElement(e) == Concat([p \in 1..Len(pages) |-> OpsOf(p, e)])

\* C4: compose() never raises because of a binding expression that is
\* empty, unparseable or matches nothing, wherever the binding occurs.
C4_BindingNeverRaises == raised # "XPathEvalError"

\* C5: no text op is emitted at a document-space position (page height
\* minus its device y) beyond the bottom limit of the page.
C5_NoTextBeyondBottomLimit ==
    \A p \in 1..Len(pages) : \A k \in 1..Len(pages[p]) :
       pages[p][k].op = "text" => Ctx.page_height - pages[p][k].y <= bottom_limit(Ctx)

\* the rows of table element e and the height of row r (from 1) as the
\* claim defines it
RowsOf(e) == eval_nodes(xml_root, Get(Elements[e], "binding", <<>>))

ClaimedRowHeight(e, row_node) ==
    LET t == TableLocals(Self, Elements[e])
        cell_lines == RowCells(Self, t, row_node).cell_lines
        maxLinesAcrossColumns == Max({Len(cell_lines[c]) : c \in 1..Len(cell_lines)})
    IN  maxLinesAcrossColumns * t.row_leading + t.padding_top + t.padding_bottom

\* the rows of table element e that are on page p
RowsOn(e, p) == {r \in RowNumbers : PagesOfRow(e, r) = {p}}

C6_RowStep ==
    (pc = "rows" /\ row_idx' = row_idx + 1) =>
       LET t == TableLocals(Self, Element)
           rowHeight == ClaimedRowHeight(elem, rows[row_idx + 1])
           broke == Len(pages') = Len(pages) + 1
       IN  /\ broke <=> y_cursor + rowHeight > bottom_limit(Ctx)
           /\ ~broke => Len(pages') = Len(pages)
           /\ y_cursor' = (IF broke THEN t.y_origin + t.header_leading + t.header_gap
                           ELSE y_cursor) + rowHeight

C6_TableStart ==
    (pc = "elements" /\ pc' = "rows") =>
       LET t == TableLocals(Self, Element)
       IN  y_cursor' = t.y_origin + t.header_leading + t.header_gap

C6_UniformRows ==
    \A e \in 1..Len(Elements) :
       (IsTable(e) /\ Done(e) /\ pc # "raised" /\ PagesOf(e) # {}) =>
          LET t == TableLocals(Self, Elements[e])
              N == Len(RowsOf(e))
              h == ClaimedRowHeight(e, RowsOf(e)[1])
              c == (bottom_limit(Ctx) - (t.y_origin + t.header_leading + t.header_gap)) \div h
              last == Max(PagesOf(e))
          IN  ((\A r \in 1..N : ClaimedRowHeight(e, RowsOf(e)[r]) = h) /\ c >= 1) =>
                 /\ Cardinality(PagesOf(e)) = (N + c - 1) \div c
                 /\ \A p \in PagesOf(e) \ {last} : Cardinality(RowsOn(e, p)) = c
                 /\ Cardinality(RowsOn(e, last)) = N - c * (Cardinality(PagesOf(e)) - 1)

IsBox(e) == Get(Elements[e], "type", "None") = "TextBox"

BoxText(e) ==
    IF Has(Elements[e], "text") THEN Elements[e].text
    ELSE eval_string(xml_root, Get(Elements[e], "binding", <<>>))

BoxLeading(e) == Get(Elements[e], "leading", (Get(Elements[e], "size", 100) * 12) \div 10)

BoxEffectiveWidth(e) ==
    Max({0, Elements[e].width - (Get(Elements[e], "padding_left", 0)
                                  + Get(Elements[e], "padding_right", 0))})

\* the lines of the box's text wrapped to width - paddingLeft - paddingRight
BoxWrapped(e) ==
    wrap_text(BoxText(e), BoxEffectiveWidth(e), Get(Elements[e], "font", "Helvetica"),
              Get(Elements[e], "size", 100), Get(Elements[e], "hyphenate", TRUE))

\* floor((height - paddingTop) / leading), for leading > 0
BoxFloorLines(e) ==
    (Elements[e].height - Get(Elements[e], "padding_top", 0)) \div BoxLeading(e)

Min(a, b) == IF a <= b THEN a ELSE b

\* a composed TextBox of positive width, height and leading
SizedBox(e) ==
    /\ IsBox(e) /\ Done(e) /\ pc # "raised"
    /\ Has(Elements[e], "width") /\ Elements[e].width > 0
    /\ Has(Elements[e], "height") /\ Elements[e].height > 0
    /\ BoxLeading(e) > 0

EndsWithEllipsis(line) ==
    Len(line) >= 3 /\ SubSeq(line, Len(line) - 2, Len(line)) = <<".", ".", ".">>

\* the texts a TextBox emitted, in order
BoxEmitted(e) == [k \in 1..Len(OpsOfElement(e)) |-> OpsOfElement(e)[k].text]

BoxEllipsis(e) == Get(Elements[e], "ellipsis", TRUE)

\* the claim about the emitted lines, for a line capacity maxLines
LinesAsClaimed(e, maxLines) ==
    LET wrapped == BoxWrapped(e)
        emitted == BoxEmitted(e)
    IN  IF Len(wrapped) > maxLines /\ BoxEllipsis(e)
        THEN /\ emitted # <<>>
             /\ Len(emitted) <= Len(wrapped)
             /\ \A k \in 1..(Len(emitted) - 1) : emitted[k] = wrapped[k]
             /\ Last(emitted) = apply_ellipsis(wrapped[Len(emitted)], BoxEffectiveWidth(e),
                                               Get(Elements[e], "font", "Helvetica"),
                                               Get(Elements[e], "size", 100))
             /\ EndsWithEllipsis(Last(emitted))
        ELSE /\ Len(emitted) <= Len(wrapped)
             /\ \A k \in 1..Len(emitted) : emitted[k] = wrapped[k]

\* C8 as claimed, maxLines being floor((height - paddingTop) / leading):
\* when the wrapped line count exceeds maxLines and ellipsis is enabled the
\* last emitted line is the ellipsized last retained line and the earlier
\* lines are unchanged; otherwise every emitted line is the wrapped line.
C8_EllipsisBeyondFloor ==
    \A e \in 1..Len(Elements) : SizedBox(e) => LinesAsClaimed(e, BoxFloorLines(e))

\* C8 as amended: the same with maxLines = max(1, floor((height -
\* paddingTop) / leading)), the number of lines the box keeps.
C8_EllipsisBeyondRoom ==
    \A e \in 1..Len(Elements) :
       SizedBox(e) => LinesAsClaimed(e, Max({1, BoxFloorLines(e)}))

\* C8 witness: a three-line text was cut to two lines; the first is
\* unchanged and the second is the ellipsized second wrapped line.
C8_Witness ==
    \E e \in 1..Len(Elements) :
       /\ SizedBox(e)
       /\ BoxEllipsis(e)
       /\ Len(BoxWrapped(e)) = 3
       /\ Len(BoxEmitted(e)) = 2
       /\ BoxEmitted(e)[1] = BoxWrapped(e)[1]
       /\ BoxEmitted(e)[2] # BoxWrapped(e)[2]
       /\ EndsWithEllipsis(BoxEmitted(e)[2])

\* C9: a TextBox or Image whose width or height is missing, zero or
\* negative appends no op to any page.
C9_NoSizeNoOp ==
    \A e \in 1..Len(Elements) :
       (/\ Get(Elements[e], "type", "None") \in {"TextBox", "Image"}
        /\ Done(e)
        /\ \/ ~Has(Elements[e], "width") \/ ~Has(Elements[e], "height")
           \/ Elements[e].width <= 0 \/ Elements[e].height <= 0)
       => OpPositions(e) = {}

\* C10: compose() does not return normally when a RepeatingTable has an
\* empty or absent columns array.
C10_EmptyColumnsReported ==
    pc = "done" => \A e \in 1..Len(Elements) : IsTable(e) => ColumnsOf(e) # <<>>

---------------------------------------------------------------------------
(* Properties of wrap_text                                                 *)

WrapReturned == wpc = "returned" /\ call.fn = "wrap_text"

HasSpace(line) == \E i \in 1..Len(line) : line[i] = " "

\* a line that may exceed the width: a single word or fragment and, when
\* hyphenating, one of which no prefix of more than 1 character fits with
\* a "-" appended
Unsplittable(line, width, font, size, hyphenate) ==
    /\ ~HasSpace(line)
    /\ hyphenate =>
          \A idx \in 2..Len(line) :
             _measure_text(SubSeq(line, 1, idx) \o <<"-">>, font, size) > width

\* C3: every line wrap_text returns measures at most the width, except a
\* line that is a single unsplittable word or character.
C3_LinesFitWidth ==
    WrapReturned =>
       \A i \in 1..Len(ret) :
          \/ _measure_text(ret[i], call.font, call.size) <= call.width
          \/ Unsplittable(ret[i], call.width, call.font, call.size, call.hyphenate)

---------------------------------------------------------------------------
(* Specification of direct calls of apply_ellipsis                        *)

EllipsisLines == UNION {[1..n -> {"a", "W", "."}] : n \in 0..MaxTextLen}

\* size 100: "..." measures 90
EllipsisWidths == {0, 80, 90, 140, 190, 290}

EllipsisInit ==
    /\ NoCompose
    /\ \E line \in EllipsisLines, width \in EllipsisWidths :
          call = [fn |-> "apply_ellipsis", line |-> line, width |-> width,
                  font |-> "Helvetica", size |-> 100]
    /\ ret = <<>>
    /\ wpc = "call"

CallApplyEllipsis ==
    /\ wpc = "call"
    /\ call.fn = "apply_ellipsis"
    /\ ret' = apply_ellipsis(call.line, call.width, call.font, call.size)
    /\ wpc' = "returned"
    /\ UNCHANGED <<call, composeVars>>

EllipsisNext == CallApplyEllipsis

EllipsisSpec == EllipsisInit /\ [][EllipsisNext]_vars

Dots == <<".", ".", ".">>

\* the lengths of the non-empty prefixes of the line that fit with "..."
FittingPrefixes(line, width, font, size) ==
    {n \in 1..Len(line) : _measure_text(SubSeq(line, 1, n) \o Dots, font, size) <= width}

\* C11: apply_ellipsis returns "..." alone exactly when the line is empty or
\* no non-empty prefix fits with "...", and otherwise p + "..." for the
\* longest non-empty prefix p with measure(p + "...") <= width; such a
\* result measures at most the width.
C11_EllipsisLongestPrefix ==
    (wpc = "returned" /\ call.fn = "apply_ellipsis") =>
       LET fitting == FittingPrefixes(call.line, call.width, call.font, call.size)
       IN  IF fitting = {}
           THEN ret = Dots
           ELSE /\ ret = SubSeq(call.line, 1, Max(fitting)) \o Dots
                /\ _measure_text(ret, call.font, call.size) <= call.width

\* C11 witness: two or more characters were taken off a line and the rest
\* was returned with "...".
C11_Witness ==
    /\ wpc = "returned"
    /\ call.fn = "apply_ellipsis"
    /\ Len(ret) >= 4
    /\ Len(ret) - 3 <= Len(call.line) - 2

---------------------------------------------------------------------------
(* Specification of direct calls of BaselineGrid.align and                 *)
(* LayoutContext.baseline_to_canvas                                        *)

MaxBaseline == 150

Leadings == {-10, 0, 30, 40, 70}

Offsets == {0, 20, 35}

Grids == {[leading |-> l, offset |-> o] : l \in Leadings, o \in Offsets}

AlignInit ==
    /\ NoCompose
    /\ \E grid \in Grids, baseline \in 0..MaxBaseline :
          \/ call = [fn |-> "align", grid |-> grid, baseline |-> baseline]
          \/ \E g \in {NoGrid, <<grid>>} :
                call = [fn |-> "baseline_to_canvas",
                        ctx |-> LayoutContext(2000, 1000, EmptyDict, g),
                        baseline_from_top |-> baseline]
    /\ ret = <<>>
    /\ wpc = "call"

CallAlign ==
    /\ wpc = "call"
    /\ call.fn = "align"
    /\ ret' = align(call.grid, call.baseline)
    /\ wpc' = "returned"
    /\ UNCHANGED <<call, composeVars>>

CallBaselineToCanvas ==
    /\ wpc = "call"
    /\ call.fn = "baseline_to_canvas"
    /\ ret' = baseline_to_canvas(call.ctx, call.baseline_from_top)
    /\ wpc' = "returned"
    /\ UNCHANGED <<call, composeVars>>

AlignNext == CallAlign \/ CallBaselineToCanvas

AlignSpec == AlignInit /\ [][AlignNext]_vars

\* C12: align(align(b)) = align(b) for every grid and baseline b, and
\* baseline_to_canvas applied to the document-space position of its own
\* result (page height minus the result) returns the same result.
C12_AlignIdempotent ==
    wpc = "returned" =>
       CASE call.fn = "align" -> align(call.grid, ret) = ret
         [] call.fn = "baseline_to_canvas" ->
               baseline_to_canvas(call.ctx, call.ctx.page_height - ret) = ret
         [] OTHER -> TRUE

\* C12 witness: a baseline half-way between two grid lines was moved to a
\* grid line below the offset.
C12_Witness ==
    /\ wpc = "returned"
    /\ call.fn = "align"
    /\ call.grid.leading > 0
    /\ call.baseline > call.grid.offset
    /\ 2 * ((call.baseline - call.grid.offset) % call.grid.leading) = call.grid.leading
    /\ ret # call.baseline
    /\ ret > call.grid.offset

---------------------------------------------------------------------------
(* Specification of several compose() calls one after the other.  ret is   *)
(* the log of the calls that ended: their arguments and what they returned *)
(* or raised.                                                              *)

MaxCalls == 3

\* one element of every type on a page with a baseline grid
EveryType ==
    [page |-> GridPage,
     elements |-> <<[type |-> "StaticText", text |-> AaAa, x |-> 100, y |-> 200],
                    [type |-> "DynamicText", x |-> 100, y |-> 300, binding |-> PathT],
                    BoxAt @@ [text |-> ThreeWords, width |-> 100, height |-> 240],
                    ImageAt @@ [path |-> <<"a">>, width |-> 100, height |-> 100],
                    [type |-> "Rule", x1 |-> 100, y1 |-> 100, x2 |-> 500, y2 |-> 100],
                    [type |-> "Bogus", x |-> 100, y |-> 100]>>]

\* elements without a type and of an unknown type between other elements
WithUnknown ==
    [page |-> PlainPage,
     elements |-> <<[type |-> "StaticText", text |-> AaAa, x |-> 100, y |-> 200],
                    [x |-> 100, y |-> 100],
                    TableOf(PathItems, <<ColA>>),
                    [type |-> "Bogus", x |-> 100, y |-> 100],
                    BoxAt @@ [text |-> ThreeWords, width |-> 100, height |-> 240]>>]

\* the template without the elements no branch of ElementComposer.compose
\* matches
Known(tpl) ==
    [tpl EXCEPT !.elements =
        SelectSeq(@, LAMBDA element : Get(element, "type", "None") \in ElementTypes)]

\* a table of one row per page; a table whose second column raises
AgainTemplates ==
    {EveryType, WithUnknown, Known(WithUnknown),
     TemplateOf([width |-> 2000, height |-> 530, margins |-> [t |-> 100, b |-> 100]],
                <<>>, TableOf(PathItems, <<ColA, ColB>>), <<>>),
     TemplateOf(PlainPage, <<>>,
                TableOf(PathItems, <<ColA, [header |-> <<"W">>, binding |-> PathBad]>>), <<>>)}

AgainRoots == {Doc(<<>>), Doc(<<Item(Aa), Item(AaAa)>>)}

\* mutant: the page list is shared by every LayoutContext
InitialPages_shared(previous) == previous

\* `self.pages = [[]]` of LayoutContext.__init__, whatever pages an earlier
\* context holds
InitialPages(previous) == << <<>> >>

AgainInit ==
    /\ template \in AgainTemplates
    /\ xml_root \in AgainRoots
    /\ pc = "elements"
    /\ elem = 1
    /\ pages = << <<>> >>
    /\ rows = <<>>
    /\ row_idx = 0
    /\ y_cursor = 0
    /\ raised = ""
    /\ call = NoCall
    /\ ret = <<>>
    /\ wpc = "idle"

\* a call ended and compose() is called again (lines 429-443)
ComposeAgain ==
    /\ pc \in {"done", "raised"}
    /\ Len(ret) + 1 < MaxCalls
    /\ ret' = Append(ret, [template |-> template, xml_root |-> xml_root,
                           pages |-> pages, raised |-> raised])
    /\ template' \in AgainTemplates
    /\ xml_root' \in AgainRoots
    /\ pc' = "elements"
    /\ elem' = 1
    /\ pages' = InitialPages(pages)
    /\ rows' = <<>>
    /\ row_idx' = 0
    /\ y_cursor' = 0
    /\ raised' = ""
    /\ UNCHANGED <<call, wpc>>

AgainNext == Next \/ ComposeAgain

AgainSpec == AgainInit /\ [][AgainNext]_vars

\* the calls so far: those that ended and, once it ended, the current one
Calls ==
    IF pc \in {"done", "raised"}
    THEN Append(ret, [template |-> template, xml_root |-> xml_root,
                      pages |-> pages, raised |-> raised])
    ELSE ret

---------------------------------------------------------------------------
(* Properties of the cells of a RepeatingTable                             *)

\* the lines emitted for column c of row r (both from 1) of table element e
EmittedCell(e, r, c) ==
    LET ops == SelectSeq(OpsOfElement(e), LAMBDA o : IsRowOp(o, e, r - 1) /\ o.col = c - 1)
    IN  [k \in 1..Len(ops) |-> ops[k].text]

RowRendered(e, r) == PagesOfRow(e, r - 1) # {}

ColumnBinding(e, c) == Get(ColumnsOf(e)[c], "binding", <<>>)

\* a relative binding evaluated against the row node alone: the document
\* the row is taken from is replaced by an empty one
TextInRow(row_node, binding) ==
    LET expr == IF Head(binding) = "." THEN binding ELSE <<".", "/">> \o binding
        value == xpath(row_node, Leaf("None", <<>>), expr)
    IN  IF value.kind = "nodes"
        THEN Join(<<" ">>, SelectSeq([i \in 1..Len(value.nodes) |-> value.nodes[i].text],
                                     LAMBDA v : v # <<>>))
        ELSE value.value

\* the cell text the claim gives column c of row r
ClaimedCellText(e, r, c) ==
    LET binding == ColumnBinding(e, c)
    IN  IF binding = <<>> THEN <<>>
        ELSE IF Head(binding) = "/" THEN eval_string(xml_root, binding)
        ELSE TextInRow(RowsOf(e)[r], binding)

CellAsClaimed(e, r, c) ==
    LET t == TableLocals(Self, Elements[e])
    IN  EmittedCell(e, r, c)
        = wrap_text(ClaimedCellText(e, r, c),
                    t.column_widths[c] - (t.padding_left + t.padding_right),
                    t.row_font, t.row_size, TRUE)

---------------------------------------------------------------------------
(* Properties of StaticText and DynamicText                                *)

IsTextLine(element) == Get(element, "type", "None") \in {"StaticText", "DynamicText"}

\* the binding of the element is missing, empty, unparseable or matches
\* nothing in the data source
BindingResolvesToNothing(element) ==
    \/ ~Has(element, "binding")
    \/ element.binding = <<>>
    \/ xpath(xml_root, xml_root, element.binding).kind = "error"
    \/ /\ xpath(xml_root, xml_root, element.binding).kind = "nodes"
       /\ xpath(xml_root, xml_root, element.binding).nodes = <<>>

\* a step that composes a StaticText or DynamicText appends one text op to
\* the current page and changes nothing else of the pages
C15_Step ==
    (pc = "elements" /\ elem <= Len(Elements) /\ IsTextLine(Element)) =>
       /\ pc' = "elements"
       /\ elem' = elem + 1
       /\ raised' = ""
       /\ Len(pages') = Len(pages)
       /\ \A p \in 1..(Len(pages) - 1) : pages'[p] = pages[p]
       /\ Len(Last(pages')) = Len(Last(pages)) + 1
       /\ SubSeq(Last(pages'), 1, Len(Last(pages))) = Last(pages)
       /\ Last(Last(pages')).op = "text"
       /\ (Element.type = "DynamicText" /\ BindingResolvesToNothing(Element)) =>
             /\ Last(Last(pages')).text = <<>>
             /\ Last(Last(pages')).x = Get(Element, "x", Ctx.margins.l)
             /\ Last(Last(pages')).y = Ctx.page_height - Get(Element, "y", Ctx.margins.t)

\* C15: every StaticText and DynamicText element appends exactly one text
\* op to the current page; a DynamicText whose binding is missing, empty,
\* unparseable or matches nothing emits an op with empty text at the
\* element's position converted to device coordinates; no error is raised
\* by such an element.
C15_OneOpPerTextLine ==
    /\ [][C15_Step]_vars
    /\ [](\A e \in 1..Len(Elements) :
             IsTextLine(Elements[e]) =>
                /\ Done(e) => Cardinality(OpPositions(e)) = 1
                /\ ~(pc = "raised" /\ elem = e))

\* C15 witness: a DynamicText with an unparseable binding was composed and
\* its one op has empty text.
C15_Witness ==
    \E e \in 1..Len(Elements) :
       /\ Get(Elements[e], "type", "None") = "DynamicText"
       /\ Get(Elements[e], "binding", <<>>) = PathBad
       /\ Done(e)
       /\ Len(OpsOfElement(e)) = 1
       /\ OpsOfElement(e)[1].text = <<>>
       /\ OpsOfElement(e)[1].x = Elements[e].x

---------------------------------------------------------------------------
(* Spin2AsciiParser (ascii_parser.py).  A record is [id, values]: the      *)
(* record_id of the RecordSpec that matched the line and the dictionary    *)
(* try_parse returns.  A str is a sequence of characters; a value that is  *)
(* None or "" where the code only tests its truth is <<>>, an absent       *)
(* integer is 0 (`or` treats both alike).  A reference to a dictionary in  *)
(* a list is the index of the dictionary; 0 and <<>> are None.             *)

\* None where the code tells it from "" (the interest of an owner group)
None == <<"None">>

\* value.strip()
RECURSIVE LStrip(_)
LStrip(value) ==
    IF value # <<>> /\ Head(value) = " " THEN LStrip(Tail(value)) ELSE value

RECURSIVE RStrip(_)
RStrip(value) ==
    IF value # <<>> /\ Last(value) = " " THEN RStrip(Front(value)) ELSE value

Strip(value) == RStrip(LStrip(value))

\* digits[i : i + 3] for i in range(0, len(digits), 3)
RECURSIVE GroupsOfThree(_)
GroupsOfThree(digits) ==
    IF Len(digits) <= 3 THEN <<digits>>
    ELSE <<SubSeq(digits, 1, 3)>> \o GroupsOfThree(SubSeq(digits, 4, Len(digits)))

\* _format_title_number: <<>> is None
_format_title_number(value) ==
    LET digits == SelectSeq(value, LAMBDA c : c # " ")
    IN  IF value = <<>> \/ digits = <<>> THEN <<>>
        ELSE Join(<<" ">>, GroupsOfThree(digits))

\* Spin2AsciiParser.__init__ with the fields _finalize and the handlers of
\* the continuation records read
NewParser ==
    [order_number |-> <<>>,
     title |-> [title_number |-> <<>>, formatted_title_number |-> <<>>,
                rights_type |-> <<>>, create_date |-> <<>>,
                registration |-> [document_number |-> <<>>, date |-> <<>>,
                                  document_type_code |-> <<>>,
                                  document_type_name |-> <<>>],
                parcels |-> <<>>, municipal_address |-> <<>>, owners |-> <<>>,
                instruments |-> <<>>],
     _owner_groups |-> [k \in {} |-> 0],
     _owner_order |-> <<>>,
     _current_owner_party |-> <<>>,
     _current_parcel |-> 0,
     _current_instrument |-> 0,
     _instrument_sequence |-> 0]

\* `if values.get(key): target = values[key]`
IfGiven(values, key, old) == IF Get(values, key, <<>>) # <<>> THEN values[key] ELSE old

_handle_title_header(self, values) ==
    LET title_number == Get(values, "title_number", <<>>)
        formatted == IF title_number # <<>> /\ Get(values, "formatted_title_number", <<>>) = <<>>
                     THEN _format_title_number(title_number)
                     ELSE Get(values, "formatted_title_number", <<>>)
        registration == self.title.registration
    IN  [self EXCEPT
           !.title.title_number = IF title_number # <<>> THEN title_number ELSE @,
           !.title.formatted_title_number = IF formatted # <<>> THEN formatted ELSE @,
           !.title.rights_type = IfGiven(values, "rights_type", @),
           !.title.create_date = IfGiven(values, "create_date", @),
           !.title.municipal_address =
               IF Get(values, "municipal_address", <<>>) # <<>>
               THEN Append(@, values.municipal_address) ELSE @,
           !.title.registration =
               [document_number |-> IfGiven(values, "document_number", registration.document_number),
                date |-> IfGiven(values, "registration_date", registration.date),
                document_type_code |->
                    IfGiven(values, "document_type_code", registration.document_type_code),
                document_type_name |->
                    IfGiven(values, "document_type_name", registration.document_type_name)],
           !.order_number = IfGiven(values, "order_number", @)]

\* _handle_parcel; `line` records which record made the parcel
_handle_parcel(self, values, line) ==
    LET sequence == IF Get(values, "sequence", 0) # 0 THEN values.sequence
                    ELSE Len(self.title.parcels) + 1
        parcel == [sequence |-> sequence,
                   linc_number |-> Get(values, "linc_number", <<>>),
                   legal_text |-> <<>>,
                   rights_text |-> <<>>,
                   line |-> line]
    IN  [self EXCEPT !.title.parcels = Append(@, parcel),
                     !._current_parcel = Len(self.title.parcels) + 1]

_handle_legal_line(self, values) ==
    IF self._current_parcel = 0 THEN self
    ELSE IF Get(values, "text", <<>>) # <<>>
    THEN [self EXCEPT !.title.parcels[self._current_parcel].legal_text =
                          Append(@, values.text)]
    ELSE self

_handle_rights_line(self, values) ==
    IF self._current_parcel = 0 THEN self
    ELSE IF Get(values, "text", <<>>) # <<>>
    THEN [self EXCEPT !.title.parcels[self._current_parcel].rights_text =
                          Append(@, values.text)]
    ELSE self

Common == <<"C", "o", "m", "m", "o", "n">>

_owner_group_key_unstripped(tenancy, interest) ==
    <<IF tenancy # <<>> THEN tenancy ELSE Common, interest>>

_owner_group_key(tenancy, interest) ==
    <<IF tenancy # <<>> THEN tenancy ELSE Common,
      IF interest # None THEN Strip(interest) ELSE interest>>

\* _ensure_owner_group: the parser with the group of the key in place
_ensure_owner_group(self, tenancy, interest) ==
    LET key == _owner_group_key(tenancy, interest)
        group == [sequence |-> Len(self._owner_order) + 1,
                  tenancy_type |-> tenancy,
                  interest |-> interest,
                  parties |-> <<>>]
    IN  IF key \in DOMAIN self._owner_groups THEN self
        ELSE [self EXCEPT !._owner_groups = @ @@ (key :> group),
                          !._owner_order = Append(@, key)]

\* _handle_owner; `line` records which record made the party
_handle_owner(self, values, line) ==
    LET tenancy == Get(values, "tenancy", <<>>)
        interest == Get(values, "interest", None)
        key == _owner_group_key(tenancy, interest)
        ensured == _ensure_owner_group(self, tenancy, interest)
        group == ensured._owner_groups[key]
        party == [sequence |-> IF Get(values, "sequence", 0) # 0 THEN values.sequence
                               ELSE Len(group.parties) + 1,
                  name |-> Get(values, "name", <<>>),
                  aliases |-> <<>>,
                  address_lines |-> <<>>,
                  province |-> <<>>,
                  postal_code |-> <<>>,
                  line |-> line]
    IN  [ensured EXCEPT !._owner_groups[key].parties = Append(@, party),
                        !._current_owner_party = <<key, Len(group.parties) + 1>>]

_handle_owner_alias(self, values) ==
    LET current == self._current_owner_party
    IN  IF current = <<>> THEN self
        ELSE IF Get(values, "alias", <<>>) # <<>>
        THEN [self EXCEPT !._owner_groups[current[1]].parties[current[2]].aliases =
                              Append(@, values.alias)]
        ELSE self

_handle_owner_address(self, values) ==
    LET current == self._current_owner_party
    IN  IF current = <<>> THEN self
        ELSE [self EXCEPT !._owner_groups[current[1]].parties[current[2]] =
                 [@ EXCEPT !.address_lines =
                               IF Get(values, "address_line", <<>>) # <<>>
                               THEN Append(@, values.address_line) ELSE @,
                           !.province = IfGiven(values, "province", @),
                           !.postal_code = IfGiven(values, "postal_code", @)]]

\* _handle_instrument; `line` records which record made the instrument
_handle_instrument(self, values, line) ==
    LET initial_remark == Get(values, "remarks", <<>>)
        instrument == [sequence |-> self._instrument_sequence + 1,
                       registration_number |-> Get(values, "registration_number", <<>>),
                       document_type_print_text |-> <<>>,
                       remarks |-> IF initial_remark # <<>> THEN <<initial_remark>> ELSE <<>>,
                       line |-> line]
    IN  [self EXCEPT !._instrument_sequence = @ + 1,
                     !.title.instruments = Append(@, instrument),
                     !._current_instrument = Len(self.title.instruments) + 1]

_handle_instrument_remark_first(self, values) ==
    IF self._current_instrument = 0 THEN self
    ELSE IF Get(values, "text", <<>>) # <<>>
    THEN [self EXCEPT !.title.instruments[1].remarks = Append(@, values.text)]
    ELSE self

_handle_instrument_remark(self, values) ==
    IF self._current_instrument = 0 THEN self
    ELSE IF Get(values, "text", <<>>) # <<>>
    THEN [self EXCEPT !.title.instruments[self._current_instrument].remarks =
                          Append(@, values.text)]
    ELSE self

_handle_municipal_address(self, values) ==
    IF Get(values, "address_line", <<>>) # <<>>
    THEN [self EXCEPT !.title.municipal_address = Append(@, values.address_line)]
    ELSE self

\* _record_handler and the call of the handler in consume_line; a record
\* of no known id has no handler
HandleRecord(self, record, line) ==
    CASE record.id = "TITLE_HEADER" -> _handle_title_header(self, record.values)
      [] record.id = "PARCEL" -> _handle_parcel(self, record.values, line)
      [] record.id = "LEGAL_LINE" -> _handle_legal_line(self, record.values)
      [] record.id = "RIGHTS_LINE" -> _handle_rights_line(self, record.values)
      [] record.id = "OWNER" -> _handle_owner(self, record.values, line)
      [] record.id = "OWNER_ALIAS" -> _handle_owner_alias(self, record.values)
      [] record.id = "OWNER_ADDRESS" -> _handle_owner_address(self, record.values)
      [] record.id = "INSTRUMENT" -> _handle_instrument(self, record.values, line)
      [] record.id = "INSTRUMENT_REMARK" -> _handle_instrument_remark(self, record.values)
      [] record.id = "MUNICIPAL_ADDRESS" -> _handle_municipal_address(self, record.values)
      [] OTHER -> self

\* sorted(items, key=lambda p: p.get("sequence", 0)): stable
RECURSIVE SortedBySequence(_)
SortedBySequence(items) ==
    IF items = <<>> THEN <<>>
    ELSE LET rest == SortedBySequence(Front(items))
             item == Last(items)
             before == SelectSeq(rest, LAMBDA p : p.sequence <= item.sequence)
             after == SelectSeq(rest, LAMBDA p : p.sequence > item.sequence)
         IN  before \o <<item>> \o after

\* _finalize raises ValueError
FinalizeRaises(self) ==
    \/ self.title.title_number = <<>>
    \/ self.title.rights_type = <<>>
    \/ self.title.create_date = <<>>
    \/ self.title.registration.document_number = <<>>
    \/ self.title.registration.document_type_code = <<>>
    \/ self.title.registration.document_type_name = <<>>

\* the owners list _finalize builds
FinalOwners(self) ==
    [g \in 1..Len(self._owner_order) |->
        LET group == self._owner_groups[self._owner_order[g]]
        IN  [tenancy_type |-> group.tenancy_type,
             interest |-> group.interest,
             parties |-> SortedBySequence(group.parties)]]

\* the instruments with the print text _finalize gives them
FinalInstruments(self) ==
    [i \in 1..Len(self.title.instruments) |->
        LET remarks == SelectSeq(self.title.instruments[i].remarks, LAMBDA r : r # <<>>)
        IN  [self.title.instruments[i] EXCEPT
                !.document_type_print_text = Join(<<" ">>, remarks)]]

\* _finalize when it returns: {"order_number": ..., "title": title}
_finalize(self) ==
    [order_number |-> self.order_number,
     title |-> [self.title EXCEPT
         !.formatted_title_number =
             IF @ = <<>> THEN _format_title_number(self.title.title_number) ELSE @,
         !.registration.date = IF @ = <<>> THEN self.title.create_date ELSE @,
         !.owners = FinalOwners(self),
         !.instruments = FinalInstruments(self),
         !.parcels = SortedBySequence(self.title.parcels)]]

---------------------------------------------------------------------------
(* parse_ascii_to_xml up to the tree: the parser consumes the records of   *)
(* the file one line at a time, then _finalize builds the result.  `call`  *)
(* holds the records consumed so far, `ret` the parser and, once _finalize *)
(* returned, its result; wpc is "consume", "done" or "raised".  A file is  *)
(* an optional TITLE_HEADER record followed by at most MaxLines records.   *)

MaxLines == 3

\* the text of the record on line n: distinct lines carry distinct texts
LineText(n) == <<ToString(n)>>

Headers ==
    {[id |-> "TITLE_HEADER",
      values |-> [title_number |-> title_number, rights_type |-> <<"S">>,
                  create_date |-> <<"d">>, document_number |-> <<"D">>,
                  document_type_code |-> <<"T">>, document_type_name |-> <<"N">>]] :
        title_number \in {<<>>, <<"1", "2", " ", "3", "4">>}}

\* the records line n of a file can hold
Records(n) ==
    {[id |-> "PARCEL", values |-> [sequence |-> sequence, linc_number |-> LineText(n)]] :
        sequence \in {0, 1}}
    \cup {[id |-> id, values |-> [text |-> LineText(n)]] :
            id \in {"LEGAL_LINE", "RIGHTS_LINE"}}
    \cup {[id |-> "OWNER", values |-> [name |-> LineText(n), tenancy |-> <<>>]]}
    \cup {[id |-> "OWNER_ALIAS", values |-> [alias |-> LineText(n)]]}
    \cup {[id |-> "OWNER_ADDRESS",
           values |-> [address_line |-> LineText(n), province |-> LineText(n)]]}
    \cup {[id |-> "INSTRUMENT",
           values |-> [registration_number |-> LineText(n), remarks |-> remarks]] :
            remarks \in {<<>>, LineText(n)}}
    \cup {[id |-> "INSTRUMENT_REMARK", values |-> [text |-> text]] :
            text \in {<<>>, LineText(n)}}
    \cup {[id |-> "MUNICIPAL_ADDRESS", values |-> [address_line |-> LineText(n)]]}

JT == <<"J", "T">>

\* the OWNER records line n of a file can hold
OwnerRecords(n) ==
    {[id |-> "OWNER",
      values |-> [name |-> LineText(n), tenancy |-> key[1], interest |-> key[2],
                  sequence |-> sequence]] :
        key \in {<<<<>>, None>>, <<Common, None>>, <<JT, <<"1">>>>, <<JT, <<" ", "1">>>>},
        sequence \in {0, 1, 2}}

\* the records of the file after its header
ContentLines(lines) == SelectSeq(lines, LAMBDA record : record.id # "TITLE_HEADER")

ParserInit ==
    /\ NoCompose
    /\ call = [fn |-> "parse_ascii_to_xml", lines |-> <<>>]
    /\ ret = NewParser
    /\ wpc = "consume"

\* consume_line on the record `record`
consume_line(record) ==
    /\ call' = [call EXCEPT !.lines = Append(@, record)]
    /\ ret' = HandleRecord(ret, record, Len(call.lines) + 1)
    /\ UNCHANGED <<wpc, composeVars>>

ConsumeHeader ==
    /\ wpc = "consume"
    /\ call.fn = "parse_ascii_to_xml"
    /\ call.lines = <<>>
    /\ \E record \in Headers : consume_line(record)

ConsumeLine ==
    /\ wpc = "consume"
    /\ call.fn = "parse_ascii_to_xml"
    /\ Len(ContentLines(call.lines)) < MaxLines
    /\ \E record \in Records(Len(call.lines) + 1) : consume_line(record)

ConsumeOwner ==
    /\ wpc = "consume"
    /\ call.fn = "parse_ascii_to_xml"
    /\ Len(ContentLines(call.lines)) < MaxLines
    /\ \E record \in OwnerRecords(Len(call.lines) + 1) : consume_line(record)

Finalize ==
    /\ wpc = "consume"
    /\ call.fn = "parse_ascii_to_xml"
    /\ IF FinalizeRaises(ret)
       THEN wpc' = "raised" /\ UNCHANGED ret
       ELSE wpc' = "done" /\ ret' = _finalize(ret)
    /\ UNCHANGED <<call, composeVars>>

ParserNext == ConsumeHeader \/ ConsumeLine \/ Finalize

ParserSpec == ParserInit /\ [][ParserNext]_vars

OwnerNext == ConsumeHeader \/ ConsumeOwner \/ Finalize

OwnerSpec == ParserInit /\ [][OwnerNext]_vars

---------------------------------------------------------------------------
(* Properties of Spin2AsciiParser                                          *)

Lines == call.lines

\* the parcels, parties and instruments the parser holds, or its result
\* holds once _finalize returned
Parcels == ret.title.parcels

Instruments == ret.title.instruments

PartyLists ==
    IF wpc = "done" THEN [g \in 1..Len(ret.title.owners) |-> ret.title.owners[g].parties]
    ELSE [g \in 1..Len(ret._owner_order) |-> ret._owner_groups[ret._owner_order[g]].parties]

Parties == Concat(PartyLists)

\* the line of the last record of id `parent` before line n, 0 when none
ParentOf(n, parent) ==
    LET before == {m \in 1..(n - 1) : Lines[m].id = parent}
    IN  IF before = {} THEN 0 ELSE CHOOSE m \in before : \A k \in before : k <= m

\* the lines of the records of id `child` whose last parent is on line m
\* and that carry the field, in input order
ChildrenOf(m, parent, child, field) ==
    SelectSeq([k \in 1..Len(Lines) |-> k],
              LAMBDA k : /\ Lines[k].id = child
                         /\ ParentOf(k, parent) = m
                         /\ Get(Lines[k].values, field, <<>>) # <<>>)

\* the values of the field in those records, in input order
Attached(m, parent, child, field) ==
    LET children == ChildrenOf(m, parent, child, field)
    IN  [k \in 1..Len(children) |-> Lines[children[k]].values[field]]

\* the lines of the records of id `parent`, and the lines the items of
\* a list were made from
LinesOf(parent) == {m \in 1..Len(Lines) : Lines[m].id = parent}

MadeFrom(items) == {items[k].line : k \in 1..Len(items)}

\* the remarks of the instrument made from line m: its initial remark,
\* then its remark records
RemarksOf(m) ==
    (IF Get(Lines[m].values, "remarks", <<>>) # <<>> THEN <<Lines[m].values.remarks>> ELSE <<>>)
    \o Attached(m, "INSTRUMENT", "INSTRUMENT_REMARK", "text")

\* a continuation record that has no parent before it
Dropped(n) ==
    \/ Lines[n].id \in {"LEGAL_LINE", "RIGHTS_LINE"} /\ ParentOf(n, "PARCEL") = 0
    \/ Lines[n].id \in {"OWNER_ALIAS", "OWNER_ADDRESS"} /\ ParentOf(n, "OWNER") = 0
    \/ Lines[n].id = "INSTRUMENT_REMARK" /\ ParentOf(n, "INSTRUMENT") = 0

\* C16: every PARCEL, OWNER and INSTRUMENT record made one parcel, party
\* or instrument, and each of them holds exactly the non-empty texts of the
\* continuation records of its kind that follow it before the next record
\* of its kind, in input order (LEGAL_LINE and RIGHTS_LINE for a parcel,
\* OWNER_ALIAS and OWNER_ADDRESS for a party, INSTRUMENT_REMARK for an
\* instrument); a continuation record before any parent is therefore held
\* by nothing.  Once _finalize returned, the print text of every instrument
\* is its own initial remark and its own remark records joined by single
\* spaces in input order.
C16_ContinuationsAttachToLastParent ==
    (call.fn = "parse_ascii_to_xml" /\ wpc \in {"consume", "done"}) =>
        /\ MadeFrom(Parcels) = LinesOf("PARCEL") /\ Len(Parcels) = Cardinality(LinesOf("PARCEL"))
        /\ MadeFrom(Parties) = LinesOf("OWNER") /\ Len(Parties) = Cardinality(LinesOf("OWNER"))
        /\ MadeFrom(Instruments) = LinesOf("INSTRUMENT")
        /\ Len(Instruments) = Cardinality(LinesOf("INSTRUMENT"))
        /\ \A k \in 1..Len(Parcels) :
              /\ Parcels[k].legal_text = Attached(Parcels[k].line, "PARCEL", "LEGAL_LINE", "text")
              /\ Parcels[k].rights_text = Attached(Parcels[k].line, "PARCEL", "RIGHTS_LINE", "text")
        /\ \A k \in 1..Len(Parties) :
              /\ Parties[k].aliases = Attached(Parties[k].line, "OWNER", "OWNER_ALIAS", "alias")
              /\ Parties[k].address_lines =
                     Attached(Parties[k].line, "OWNER", "OWNER_ADDRESS", "address_line")
              /\ LET provinces == Attached(Parties[k].line, "OWNER", "OWNER_ADDRESS", "province")
                 IN  Parties[k].province = IF provinces = <<>> THEN <<>> ELSE Last(provinces)
        /\ \A k \in 1..Len(Instruments) :
              /\ Instruments[k].remarks = RemarksOf(Instruments[k].line)
              /\ wpc = "done" =>
                    Instruments[k].document_type_print_text =
                        Join(<<" ">>, RemarksOf(Instruments[k].line))

\* _finalize returned for a file with a continuation record before any
\* parent and an instrument with two remarks
C16_Witness ==
    /\ call.fn = "parse_ascii_to_xml"
    /\ wpc = "done"
    /\ \E n \in 1..Len(Lines) : Dropped(n)
    /\ \E k \in 1..Len(Instruments) : Len(Instruments[k].remarks) = 2

\* the lines of the OWNER records consumed
OwnerLines == LinesOf("OWNER")

\* the key of the OWNER record on line n: its tenancy, "Common" when it
\* has none, and its interest without the spaces around it
KeyOfLine(n) ==
    LET tenancy == Get(Lines[n].values, "tenancy", <<>>)
        interest == Get(Lines[n].values, "interest", None)
    IN  <<IF tenancy = <<>> THEN Common ELSE tenancy,
          IF interest = None THEN None ELSE Strip(interest)>>

\* the first line that holds an OWNER record of the key
FirstLineOf(key) ==
    CHOOSE n \in OwnerLines :
        KeyOfLine(n) = key /\ \A m \in OwnerLines : KeyOfLine(m) = key => n <= m

Owners == ret.title.owners

\* the places <<group, position>> of the result that hold the party made
\* from line n
PlacesOf(n) ==
    {place \in UNION {{<<g, k>> : k \in 1..Len(Owners[g].parties)} : g \in 1..Len(Owners)} :
        Owners[place[1]].parties[place[2]].line = n}

\* the key of group g of the result: the key of the record that made it
KeyOfGroup(g) == KeyOfLine(FirstLineOf(KeyOfLine(Owners[g].parties[1].line)))

\* C17: once _finalize returned for a file of OWNER records, the result
\* has one tenancy group for each distinct key (tenancy or "Common",
\* stripped interest) of the records; every OWNER record is exactly one
\* party, placed in the group that holds the parties of its key and
\* carrying the record's sequence number when it has one; the groups are
\* in the order in which their keys first occur in the file, and the
\* sequence numbers of the parties of a group never decrease.
C17_OwnersGroupedByKey ==
    (call.fn = "parse_ascii_to_xml" /\ wpc = "done") =>
        /\ Len(Owners) = Cardinality({KeyOfLine(n) : n \in OwnerLines})
        /\ \A n \in OwnerLines :
              /\ Cardinality(PlacesOf(n)) = 1
              /\ \A place \in PlacesOf(n) :
                    /\ \A k \in 1..Len(Owners[place[1]].parties) :
                          KeyOfLine(Owners[place[1]].parties[k].line) = KeyOfLine(n)
                    /\ Owners[place[1]].tenancy_type =
                           Lines[FirstLineOf(KeyOfLine(n))].values.tenancy
                    /\ Owners[place[1]].interest =
                           Lines[FirstLineOf(KeyOfLine(n))].values.interest
                    /\ Lines[n].values.sequence # 0 =>
                           Owners[place[1]].parties[place[2]].sequence =
                               Lines[n].values.sequence
        /\ \A g \in 1..Len(Owners) :
              /\ Owners[g].parties # <<>>
              /\ \A h \in 1..Len(Owners) :
                    g < h => FirstLineOf(KeyOfGroup(g)) < FirstLineOf(KeyOfGroup(h))
              /\ \A k, l \in 1..Len(Owners[g].parties) :
                    k < l => Owners[g].parties[k].sequence <= Owners[g].parties[l].sequence

\* _finalize returned for three OWNER records of two keys, two of them
\* with one key written in two ways, the later of the two with the lower
\* sequence number
C17_Witness ==
    /\ call.fn = "parse_ascii_to_xml"
    /\ wpc = "done"
    /\ Cardinality(OwnerLines) = 3
    /\ Len(Owners) = 2
    /\ \E m, n \in OwnerLines :
          /\ m < n
          /\ KeyOfLine(m) = KeyOfLine(n)
          /\ Lines[m].values # [Lines[n].values EXCEPT !.name = Lines[m].values.name,
                                                        !.sequence = Lines[m].values.sequence]
          /\ Lines[m].values.sequence > Lines[n].values.sequence
          /\ Lines[n].values.sequence # 0

---------------------------------------------------------------------------
(* Further properties of wrap_text                                         *)

\* the paragraphs of the text handed to wrap_text and the words of each
ParagraphsOf(text) == SplitNewlines(SelectSeq(text, LAMBDA c : c # "\r"), <<>>)

WordsOf(paragraph) == SplitWhitespace(paragraph, <<>>)

Measure(line) == _measure_text(line, call.font, call.size)

\* the lengths of the prefixes of more than 1 character of the remaining
\* text that fit the width with a "-" appended
FittingSplits(remainder) ==
    {idx \in 2..(Len(remainder) - 1) :
        Measure(SubSeq(remainder, 1, idx) \o <<"-">>) <= call.width}

\* the lines p1-, p2-, ..., rest of an oversized word
RECURSIVE ClaimedSplit(_)
ClaimedSplit(remainder) ==
    IF Measure(remainder) > call.width /\ FittingSplits(remainder) # {}
    THEN LET idx == Max(FittingSplits(remainder))
         IN  <<SubSeq(remainder, 1, idx) \o <<"-">>>>
             \o ClaimedSplit(SubSeq(remainder, idx + 1, Len(remainder)))
    ELSE <<remainder>>

\* the lines from line i on are the segments: every hyphenated segment is
\* a line, and the rest starts the line after them
EmittedAt(i, segments) ==
    /\ i + Len(segments) - 1 <= Len(ret)
    /\ \A k \in 1..(Len(segments) - 1) : ret[i + k - 1] = segments[k]
    /\ LET line == ret[i + Len(segments) - 1]
           rest == Last(segments)
       IN  \/ line = rest
           \/ Len(line) > Len(rest) /\ SubSeq(line, 1, Len(rest) + 1) = rest \o <<" ">>

\* the words of the text that measure more than the width and have a
\* fitting split point
SplittableWords ==
    {word \in UNION {{WordsOf(ParagraphsOf(call.text)[p])[k] :
                         k \in 1..Len(WordsOf(ParagraphsOf(call.text)[p]))} :
                     p \in 1..Len(ParagraphsOf(call.text))} :
        Measure(word) > call.width /\ FittingSplits(word) # {}}

\* the split of the word ends with a rest that fits: a fitting split point
\* exists at every step
SplitsToTheEnd(word) == Measure(Last(ClaimedSplit(word))) <= call.width

\* C18: with hyphenate set, every word of the text that measures more than
\* the width and has a fitting split point, whatever its position in its
\* paragraph, is never a line of its own whole, and when a fitting split
\* point exists at every step it is emitted as the lines p1-, p2-, ...,
\* rest (each pi the longest prefix of more than 1 character of the
\* remaining text that fits with "-").
C18_OversizedWordsSplitAnywhere ==
    (WrapReturned /\ call.hyphenate) =>
        \A word \in SplittableWords :
            /\ \A i \in 1..Len(ret) : ret[i] # word
            /\ SplitsToTheEnd(word) => \E i \in 1..Len(ret) : EmittedAt(i, ClaimedSplit(word))

\* the same for the last word of each paragraph only
C18_LastWordsSplit ==
    (WrapReturned /\ call.hyphenate) =>
        \A p \in 1..Len(ParagraphsOf(call.text)) :
            LET words == WordsOf(ParagraphsOf(call.text)[p])
            IN  (words # <<>> /\ Last(words) \in SplittableWords
                 /\ \A k \in 1..(Len(words) - 1) : words[k] # Last(words)) =>
                    /\ \A i \in 1..Len(ret) : ret[i] # Last(words)
                    /\ SplitsToTheEnd(Last(words)) =>
                          \E i \in 1..Len(ret) : EmittedAt(i, ClaimedSplit(Last(words)))

\* a line that ends a hyphenated segment of a split word (the texts
\* handed to wrap_text hold no "-")
EndsSegment(line) == line # <<>> /\ Last(line) = "-"

\* the lines put back together: a segment is followed by the rest of its
\* word, any other line by a space
RECURSIVE Glue(_)
Glue(lines) ==
    IF lines = <<>> THEN <<>>
    ELSE (IF EndsSegment(Head(lines)) THEN Front(Head(lines)) ELSE Head(lines) \o <<" ">>)
         \o Glue(Tail(lines))

\* the words the lines hold
GluedWords(lines) == SplitWhitespace(Glue(lines), <<>>)

\* the lines are packed greedily: where the break after a line falls
\* between two words, the line with a space and the next word is wider
\* than the width; a line of several words fits the width
Greedy(lines) ==
    /\ \A k \in 1..(Len(lines) - 1) :
          ~EndsSegment(lines[k]) =>
              Measure(lines[k] \o <<" ">>
                      \o Head(GluedWords(SubSeq(lines, k + 1, Len(lines))))) > call.width
    /\ \A k \in 1..Len(lines) : HasSpace(lines[k]) => Measure(lines[k]) <= call.width

\* how many of the lines hold exactly the words: 0 when no number does
LinesHolding(lines, words) ==
    LET holding == {n \in 1..Len(lines) : GluedWords(SubSeq(lines, 1, n)) = words}
    IN  IF holding = {} THEN 0 ELSE CHOOSE n \in holding : \A m \in holding : n <= m

\* the lines are those of the paragraphs one after the other, and the
\* lines of each paragraph are packed greedily
RECURSIVE ParagraphsPacked(_, _)
ParagraphsPacked(lines, paragraphs) ==
    IF paragraphs = <<>> THEN lines = <<>>
    ELSE LET n == LinesHolding(lines, WordsOf(Head(paragraphs)))
         IN  /\ n > 0
             /\ Greedy(SubSeq(lines, 1, n))
             /\ ParagraphsPacked(SubSeq(lines, n + 1, Len(lines)), Tail(paragraphs))

\* C19: wrap_text packs the words of each paragraph greedily: wherever a
\* line break falls between two words of a paragraph, the line before the
\* break joined by one space with the first word after it measures more
\* than the width, and every line made of several words measures at most
\* the width.
C19_GreedyPacking ==
    WrapReturned => ParagraphsPacked(ret, ParagraphsOf(call.text))

\* wrap_text returned, for a text of one paragraph, a first line of several
\* words followed by a line that starts with the next word
C19_Witness ==
    /\ WrapReturned
    /\ Len(ParagraphsOf(call.text)) = 1
    /\ Len(ret) >= 2
    /\ HasSpace(ret[1])
    /\ ~EndsSegment(ret[1])

\* the lines are those of the paragraphs in order: one empty line for a
\* paragraph without words, and for a paragraph with words one or more
\* lines, none of them empty, that hold its words
RECURSIVE ParagraphsKept(_, _)
ParagraphsKept(lines, paragraphs) ==
    IF paragraphs = <<>> THEN lines = <<>>
    ELSE LET words == WordsOf(Head(paragraphs))
             n == LinesHolding(lines, words)
         IN  /\ n > 0
             /\ words = <<>> => n = 1 /\ lines[1] = <<>>
             /\ words # <<>> => \A k \in 1..n : lines[k] # <<>>
             /\ ParagraphsKept(SubSeq(lines, n + 1, Len(lines)), Tail(paragraphs))

\* C20: wrap_text returns, in paragraph order, exactly one empty line for
\* each empty or whitespace-only paragraph and at least one line for each
\* other paragraph, so it returns at least as many lines as the text has
\* newline-separated paragraphs; for the empty string it returns exactly
\* one empty line.
C20_BlankParagraphsKept ==
    WrapReturned =>
        /\ ParagraphsKept(ret, ParagraphsOf(call.text))
        /\ Len(ret) >= Len(ParagraphsOf(call.text))
        /\ call.text = <<>> => ret = << <<>> >>

\* wrap_text returned for a text with an empty paragraph, a paragraph of
\* spaces only and a paragraph with a word
C20_Witness ==
    /\ WrapReturned
    /\ \E p, q, r \in 1..Len(ParagraphsOf(call.text)) :
          /\ ParagraphsOf(call.text)[p] = <<>>
          /\ ParagraphsOf(call.text)[q] # <<>> /\ WordsOf(ParagraphsOf(call.text)[q]) = <<>>
          /\ WordsOf(ParagraphsOf(call.text)[r]) # <<>>

---------------------------------------------------------------------------
(* Further properties of BaselineGrid.align and baseline_to_canvas         *)

Abs(n) == IF n < 0 THEN -n ELSE n

\* a is baseline b moved to the nearest line of the grid, never above the
\* offset; with a leading of 0 or less a is b
OnNearestGridLine(grid, b, a) ==
    IF grid.leading > 0
    THEN /\ a >= grid.offset
         /\ (a - grid.offset) % grid.leading = 0
         /\ b <= grid.offset => a = grid.offset
         /\ b >= grid.offset => 2 * Abs(a - b) <= grid.leading
    ELSE a = b

\* C21: with a grid of leading > 0, align(b) is at or below the offset,
\* a whole number of leadings away from it, equal to the offset when b is
\* at or above the offset, and within half a leading of b otherwise; with
\* a leading of 0 or less, and in baseline_to_canvas with no grid, the
\* baseline is used as it is.
C21_AlignSnapsToNearestLine ==
    wpc = "returned" =>
       CASE call.fn = "align" -> OnNearestGridLine(call.grid, call.baseline, ret)
         [] call.fn = "baseline_to_canvas" ->
               IF call.ctx.baseline_grid = NoGrid
               THEN call.ctx.page_height - ret = call.baseline_from_top
               ELSE OnNearestGridLine(call.ctx.baseline_grid[1], call.baseline_from_top,
                                      call.ctx.page_height - ret)
         [] OTHER -> TRUE

\* align returned a grid line above a baseline that lies below the offset
\* and is on no grid line
C21_Witness ==
    /\ wpc = "returned"
    /\ call.fn = "align"
    /\ call.grid.leading > 0
    /\ call.baseline > call.grid.offset
    /\ ret < call.baseline
    /\ ret > call.grid.offset

---------------------------------------------------------------------------
(* Further properties of compose()                                         *)

\* the baseline, from the top of the page, of line k (from 0) of TextBox e
BoxBaseline(e, k) ==
    Get(Elements[e], "y", Ctx.margins.t) + Get(Elements[e], "padding_top", 0)
    + Get(Elements[e], "size", 100) + k * BoxLeading(e)

\* the ops of TextBox e are where the claim puts them, and each is lower
\* on the page than the one before it
BoxLinesDescend(e) ==
    LET ops == OpsOfElement(e)
    IN  /\ \A k \in 1..Len(ops) :
              /\ ops[k].x = Get(Elements[e], "x", Ctx.margins.l)
                            + Get(Elements[e], "padding_left", 0)
              /\ ops[k].y = baseline_to_canvas(Ctx, BoxBaseline(e, k - 1))
        /\ \A k \in 1..(Len(ops) - 1) : ops[k + 1].y < ops[k].y

\* C22: line k (from 0) of a TextBox is emitted at x + paddingLeft and at
\* the baseline-aligned position of y + paddingTop + size + k * leading,
\* and the device y of the lines of one TextBox is strictly decreasing,
\* with or without a baseline grid.
C22_BoxLinesDescend ==
    \A e \in 1..Len(Elements) : SizedBox(e) => BoxLinesDescend(e)

\* the same on the pages without a baseline grid
C22_BoxLinesDescendWithoutGrid ==
    \A e \in 1..Len(Elements) :
        (SizedBox(e) /\ Ctx.baseline_grid = NoGrid) => BoxLinesDescend(e)

\* the ops of page `before` are the first ops of page `after`, in order
IsPrefix(before, after) ==
    Len(before) <= Len(after) /\ SubSeq(after, 1, Len(before)) = before

\* one step of compose() on the page list: it keeps every page it had, adds
\* at most one page, leaves the pages before the last one as they were and
\* only appends ops to the page that was last; a page it adds starts after
\* that page
C23_Step ==
    /\ Len(pages') \in {Len(pages), Len(pages) + 1}
    /\ \A p \in 1..(Len(pages) - 1) : pages'[p] = pages[p]
    /\ IsPrefix(pages[Len(pages)], pages'[Len(pages)])

\* C23: the page list of compose() starts as one empty page, is never
\* empty and never shrinks; a new page is appended one at a time and
\* empty; every op is appended to the last page, so the pages before the
\* last one never change again and no op of a page is removed or reordered.
C23_PagesOnlyGrow ==
    /\ pages = << <<>> >>
    /\ [][C23_Step]_vars
    /\ [](Len(pages) >= 1)

\* compose() ended with three pages, each of them with ops
C23_Witness ==
    /\ pc = "done"
    /\ Len(pages) = 3
    /\ \A p \in 1..Len(pages) : pages[p] # <<>>

\* every op of the output, page after page
AllOps == Concat(pages)

Part(o) == Get(o, "part", "none")

\* op a may come before op b in the output
InOrder(a, b) ==
    /\ a.elem <= b.elem
    /\ (a.elem = b.elem /\ Part(a) = "row" /\ Part(b) = "row") =>
          /\ a.row <= b.row
          /\ a.row = b.row => (a.col < b.col \/ (a.col = b.col /\ a.line < b.line))

\* C24: the ops follow the order of the elements in the template (every
\* op of an element comes, in page order and then in order on the page,
\* before every op of an element declared after it); on each page the
\* header ops of a table come before its row ops on that page; the rows of
\* a table come in the order of the nodes of its binding, and the ops of a
\* row by column and then by line.
C24_OutputInDeclarationOrder ==
    /\ \A i, j \in 1..Len(AllOps) : i < j => InOrder(AllOps[i], AllOps[j])
    /\ \A p \in 1..Len(pages) : \A i, j \in 1..Len(pages[p]) :
          (/\ pages[p][i].elem = pages[p][j].elem
           /\ Part(pages[p][i]) = "header"
           /\ Part(pages[p][j]) = "row") => i < j

\* compose() ended with a table on two pages after another element
\* that emitted ops, a row of the table with two columns and a cell of
\* the table with two lines
C24_Witness ==
    /\ pc = "done"
    /\ \E e \in 1..Len(Elements) :
          /\ IsTable(e)
          /\ Cardinality(PagesOf(e)) >= 2
          /\ \E i \in 1..Len(AllOps) : AllOps[i].elem < e
          /\ \E i \in 1..Len(AllOps) :
                AllOps[i].elem = e /\ Part(AllOps[i]) = "row" /\ AllOps[i].line = 1
          /\ \E i \in 1..Len(AllOps) :
                AllOps[i].elem = e /\ Part(AllOps[i]) = "row" /\ AllOps[i].col = 1

\* the binding of the table yields no rows: it is missing or empty, it
\* is no path (unparseable, or an expression that yields no node-set), or
\* no node of the document matches it
YieldsNoRows(element) ==
    LET binding == Get(element, "binding", <<>>)
    IN  \/ binding = <<>>
        \/ ~IsPath(binding)
        \/ EvalPath(xml_root, xml_root, binding) = <<>>

\* the step of compose() at a table whose binding yields no rows leaves
\* the page list as it is and goes on to the next element
C25_Step ==
    (pc = "elements" /\ elem <= Len(Elements) /\ IsTable(elem) /\ YieldsNoRows(Element)) =>
        /\ pages' = pages
        /\ pc' = "elements"
        /\ elem' = elem + 1
        /\ raised' = ""

\* C25: a RepeatingTable whose binding yields no rows (binding missing,
\* empty, unparseable or matching nothing) renders nothing: it emits no
\* header and no row op, adds no page, leaves the page list exactly as it
\* was and raises no error.
C25_NoRowsNoOutput ==
    /\ [][C25_Step]_vars
    /\ [](\A e \in 1..Len(Elements) :
             (IsTable(e) /\ YieldsNoRows(Elements[e])) => OpsOfElement(e) = <<>>)

\* compose() ended for a template whose table has an unparseable binding
\* and comes after an element that emitted ops
C25_Witness ==
    /\ pc = "done"
    /\ \E e \in 2..Len(Elements) :
          /\ IsTable(e)
          /\ Get(Elements[e], "binding", <<>>) = PathBad
          /\ Get(Elements[e], "columns", <<>>) # <<>>
          /\ OpsOfElement(e - 1) # <<>>

\* the pages without the history field that numbers the elements
Unstamped(pgs) ==
    [p \in 1..Len(pgs) |->
       [k \in 1..Len(pgs[p]) |->
          [field \in DOMAIN pgs[p][k] \ {"elem"} |-> pgs[p][k][field]]]]

\* the elements of the template no branch of ElementComposer.compose matches
Unknown(tpl) ==
    {e \in 1..Len(Get(tpl, "elements", <<>>)) :
        Get(tpl.elements[e], "type", "None") \notin ElementTypes}

\* C26: an element whose type is missing or is none of StaticText,
\* DynamicText, TextBox, Image, Rule, RepeatingTable emits no op and raises
\* no error, and a compose() call returns the pages and ops (or raises the
\* error) that the call with the same template without such elements and
\* the same data source returns.
C26_UnknownTypeIgnored ==
    /\ raised # "ValueError"
    /\ \A i \in 1..Len(Calls) :
          /\ \A p \in 1..Len(Calls[i].pages) : \A k \in 1..Len(Calls[i].pages[p]) :
                Calls[i].pages[p][k].elem \notin Unknown(Calls[i].template)
          /\ \A j \in 1..Len(Calls) :
                (/\ Calls[j].template = Known(Calls[i].template)
                 /\ Calls[j].xml_root = Calls[i].xml_root) =>
                    /\ Unstamped(Calls[j].pages) = Unstamped(Calls[i].pages)
                    /\ Calls[j].raised = Calls[i].raised

\* a call with elements of unknown type between elements that emitted ops
\* on two pages, and a call with the same template without them
C26_Witness ==
    \E i, j \in 1..Len(Calls) :
        /\ Unknown(Calls[i].template) # {}
        /\ Calls[j].template = Known(Calls[i].template)
        /\ Calls[j].template # Calls[i].template
        /\ Calls[j].xml_root = Calls[i].xml_root
        /\ Len(Calls[i].pages) >= 2
        /\ \E p \in 1..Len(Calls[i].pages) : \E k \in 1..Len(Calls[i].pages[p]) :
              \E e \in Unknown(Calls[i].template) : Calls[i].pages[p][k].elem > e

\* the lines hold, paragraph after paragraph, the words of the paragraphs
RECURSIVE WordsKept(_, _)
WordsKept(lines, paragraphs) ==
    IF paragraphs = <<>> THEN lines = <<>>
    ELSE LET n == LinesHolding(lines, WordsOf(Head(paragraphs)))
         IN  n > 0 /\ WordsKept(SubSeq(lines, n + 1, Len(lines)), Tail(paragraphs))

\* the words of the text, paragraph after paragraph
AllWords(text) ==
    Concat([p \in 1..Len(ParagraphsOf(text)) |-> WordsOf(ParagraphsOf(text)[p])])

\* C27: wrap_text neither loses nor reorders text: the lines it returns,
\* read in order with the "-" of each hyphenation split dropped and the
\* fragments of a split word joined again, hold for each paragraph exactly
\* the whitespace-delimited words of that paragraph, in order.
C27_WordsPreserved ==
    WrapReturned =>
        /\ WordsKept(ret, ParagraphsOf(call.text))
        /\ GluedWords(ret) = AllWords(call.text)

\* wrap_text returned lines with a hyphenation split for a text of two
\* paragraphs with words
C27_Witness ==
    /\ WrapReturned
    /\ \E k \in 1..Len(ret) : EndsSegment(ret[k])
    /\ \E p, q \in 1..Len(ParagraphsOf(call.text)) :
          /\ p # q
          /\ WordsOf(ParagraphsOf(call.text)[p]) # <<>>
          /\ WordsOf(ParagraphsOf(call.text)[q]) # <<>>

---------------------------------------------------------------------------
(* The loops of _split_long_word, apply_ellipsis and wrap_text, one        *)
(* iteration at a time.  `call` holds the arguments, `ret` the local       *)
(* variables of the running call and, once it returned, `ret.value` the    *)
(* value it returned; wpc is "loop" or "returned".                         *)

MaxLoopLen == 4

LoopWords == UNION {[1..n -> {"a", "W", "."}] : n \in 0..MaxLoopLen}

LoopTexts == UNION {[1..n -> Glyphs] : n \in 0..MaxLoopLen}

\* size 100: "a" measures 50, "W" 100, " ", "-" and "." 30, "..." 90
LoopWidths == {-10, 0, 80, 130}

LoopInit ==
    /\ NoCompose
    /\ wpc = "loop"
    /\ \E width \in LoopWidths :
          \/ \E word \in LoopWords, hyphenate \in BOOLEAN :
                /\ call = [fn |-> "_split_long_word", word |-> word, width |-> width,
                           font |-> "Helvetica", size |-> 100, hyphenate |-> hyphenate]
                /\ ret = [remainder |-> word, segments |-> <<>>]
          \/ \E line \in LoopWords :
                /\ call = [fn |-> "apply_ellipsis", line |-> line, width |-> width,
                           font |-> "Helvetica", size |-> 100]
                /\ ret = [line |-> line]
          \/ \E text \in LoopTexts, hyphenate \in BOOLEAN :
                /\ call = [fn |-> "wrap_text", text |-> text, width |-> width,
                           font |-> "Helvetica", size |-> 100, hyphenate |-> hyphenate]
                /\ ret = [paragraphs |-> SplitNewlines(SelectSeq(text, LAMBDA c : c # "\r"),
                                                       <<>>),
                          in_paragraph |-> FALSE, words |-> <<>>, current |-> <<>>,
                          lines |-> <<>>]

Running(fn) == wpc = "loop" /\ call.fn = fn

\* the while loop of _split_long_word runs once more
SplitRuns ==
    /\ call.hyphenate
    /\ call.word # <<>>
    /\ _measure_text(ret.remainder, call.font, call.size) > call.width
    /\ Len(ret.remainder) > 1

\* one iteration of the while loop of _split_long_word (lines 71-73)
SplitStep ==
    /\ Running("_split_long_word")
    /\ SplitRuns
    /\ LET split_idx == _find_split_index(ret.remainder, call.width, call.font, call.size)
       IN  ret' = [remainder |-> SubSeq(ret.remainder, split_idx + 1, Len(ret.remainder)),
                   segments |-> Append(ret.segments,
                                       SubSeq(ret.remainder, 1, split_idx) \o <<"-">>)]
    /\ UNCHANGED <<call, wpc, composeVars>>

\* _split_long_word returns (lines 66-67, 74-75)
SplitReturn ==
    /\ Running("_split_long_word")
    /\ ~SplitRuns
    /\ ret' = [value |-> IF ~call.hyphenate \/ call.word = <<>> THEN <<call.word>>
                         ELSE Append(ret.segments, ret.remainder)]
    /\ wpc' = "returned"
    /\ UNCHANGED <<call, composeVars>>

\* the while loop of apply_ellipsis runs once more
EllipsisRuns ==
    /\ ret.line # <<>>
    /\ _measure_text(ret.line \o <<".", ".", ".">>, call.font, call.size) > call.width

\* one iteration of the while loop of apply_ellipsis (lines 119-120)
EllipsisStep ==
    /\ Running("apply_ellipsis")
    /\ EllipsisRuns
    /\ ret' = [line |-> Front(ret.line)]
    /\ UNCHANGED <<call, wpc, composeVars>>

\* apply_ellipsis returns (lines 117-118, 121)
EllipsisReturn ==
    /\ Running("apply_ellipsis")
    /\ ~EllipsisRuns
    /\ ret' = [value |-> IF ret.line # <<>> THEN ret.line \o <<".", ".", ".">>
                         ELSE <<".", ".", ".">>]
    /\ wpc' = "returned"
    /\ UNCHANGED <<call, composeVars>>

\* the for loop of wrap_text takes the next paragraph (lines 87-92)
WrapParagraphStep ==
    /\ Running("wrap_text")
    /\ ~ret.in_paragraph
    /\ ret.paragraphs # <<>>
    /\ LET words == SplitWhitespace(Head(ret.paragraphs), <<>>)
       IN  ret' = IF words = <<>>
                  THEN [ret EXCEPT !.paragraphs = Tail(@), !.lines = Append(@, <<>>)]
                  ELSE [ret EXCEPT !.paragraphs = Tail(@), !.in_paragraph = TRUE,
                                   !.words = Tail(words), !.current = Head(words)]
    /\ UNCHANGED <<call, wpc, composeVars>>

\* one iteration of the while loop of wrap_text (lines 93-105)
WrapWordStep ==
    /\ Running("wrap_text")
    /\ ret.in_paragraph
    /\ ret.words # <<>>
    /\ LET next_word == Head(ret.words)
           candidate == IF ret.current # <<>> THEN ret.current \o <<" ">> \o next_word
                        ELSE next_word
           segments == _split_long_word(next_word, call.width, call.font, call.size,
                                        call.hyphenate)
       IN  ret' = IF _measure_text(candidate, call.font, call.size) <= call.width
                  THEN [ret EXCEPT !.words = Tail(@), !.current = candidate]
                  ELSE IF ret.current = <<>>
                  THEN [ret EXCEPT !.words = Tail(@), !.lines = @ \o Front(segments),
                                   !.current = Last(segments)]
                  ELSE [ret EXCEPT !.words = Tail(@), !.lines = Append(@, ret.current),
                                   !.current = next_word]
    /\ UNCHANGED <<call, wpc, composeVars>>

\* the final word handling of a paragraph (lines 107-111)
WrapFinalStep ==
    /\ Running("wrap_text")
    /\ ret.in_paragraph
    /\ ret.words = <<>>
    /\ ret' = [ret EXCEPT
                 !.in_paragraph = FALSE,
                 !.current = <<>>,
                 !.lines = IF _measure_text(ret.current, call.font, call.size) <= call.width
                           THEN Append(@, ret.current)
                           ELSE @ \o _split_long_word(ret.current, call.width, call.font,
                                                      call.size, call.hyphenate)]
    /\ UNCHANGED <<call, wpc, composeVars>>

\* `return lines`
WrapReturn ==
    /\ Running("wrap_text")
    /\ ~ret.in_paragraph
    /\ ret.paragraphs = <<>>
    /\ ret' = [value |-> ret.lines]
    /\ wpc' = "returned"
    /\ UNCHANGED <<call, composeVars>>

LoopNext ==
    \/ SplitStep \/ SplitReturn
    \/ EllipsisStep \/ EllipsisReturn
    \/ WrapParagraphStep \/ WrapWordStep \/ WrapFinalStep \/ WrapReturn

\* a call that can take a step takes it
LoopSpec == LoopInit /\ [][LoopNext]_vars /\ WF_vars(LoopNext)

\* The value a call returns step by step is the value of the function.
LoopResult ==
    CASE call.fn = "_split_long_word" ->
             _split_long_word(call.word, call.width, call.font, call.size, call.hyphenate)
      [] call.fn = "apply_ellipsis" ->
             apply_ellipsis(call.line, call.width, call.font, call.size)
      [] call.fn = "wrap_text" ->
             wrap_text(call.text, call.width, call.font, call.size, call.hyphenate)

LoopsAgree == wpc = "returned" => ret.value = LoopResult

IsSuffix(after, before) ==
    /\ Len(after) <= Len(before)
    /\ after = SubSeq(before, Len(before) - Len(after) + 1, Len(before))

\* A step of a running call of _split_long_word or apply_ellipsis.
LoopStep(fn) == call.fn = fn /\ wpc = "loop" /\ wpc' = "loop" /\ ret' # ret

C28_Step ==
    /\ LoopStep("_split_long_word") =>
          LET removed == Len(ret.remainder) - Len(ret'.remainder)
          IN  /\ IsSuffix(ret'.remainder, ret.remainder)
              /\ removed >= 1
              /\ removed <= Len(ret.remainder) - 1
              /\ ret'.remainder # <<>>
              /\ Len(ret'.remainder) < Len(ret.remainder)
    /\ LoopStep("apply_ellipsis") =>
          /\ IsPrefix(ret'.line, ret.line)
          /\ Len(ret'.line) = Len(ret.line) - 1
          /\ EllipsisRuns

\* C28: wrap_text, _split_long_word and apply_ellipsis return for every
\* width, zero and negative ones included, and every word: each hyphenation
\* step takes between 1 and len - 1 characters off the front of the
\* remaining word, which stays non-empty and gets shorter, and each ellipsis
\* step takes exactly one character off the end of a line that is non-empty
\* and does not fit yet.
C28_LoopsTerminate == [][C28_Step]_vars /\ <>(wpc = "returned")

\* _split_long_word returned a hyphenated segment and a remainder for the
\* longest word at a width that is not positive.
C28_Witness ==
    /\ wpc = "returned"
    /\ call.fn = "_split_long_word"
    /\ call.hyphenate
    /\ call.width <= 0
    /\ Len(call.word) = MaxLoopLen
    /\ Len(ret.value) = 2

\* page p carries an op of the given part of the table declared as element e
Carries(p, e, part) ==
    \E k \in 1..Len(pages[p]) : pages[p][k].elem = e /\ Part(pages[p][k]) = part

HeaderWithoutRow(p, e) == Carries(p, e, "header") /\ ~Carries(p, e, "row")

\* C29: when compose() has returned, every page that carries the header row
\* of a table carries at least one data row of that table too, the page on
\* which the table starts included.
C29_NoHeaderWithoutRow ==
    pc = "done" =>
       \A p \in 1..Len(pages), e \in 1..Len(Elements) : ~HeaderWithoutRow(p, e)

\* the page on which a table starts is the only one that can keep a header
\* without a row: every page render_row appends gets the row right after
\* the header
C29_OnlyTheStartPage ==
    pc = "done" =>
       \A p \in 1..Len(pages), e \in 1..Len(Elements) :
          HeaderWithoutRow(p, e) =>
             /\ \A q \in 1..(p - 1) : ~Carries(q, e, "header")
             /\ p < Len(pages)
             /\ Carries(p + 1, e, "row")

\* the row the for loop of _compose_repeating_table is at, as render_row
\* measures it: it renders (no cell raises) and its row_height exceeds the
\* space between the first-row position and the bottom limit
AtOversizedRow ==
    /\ pc = "rows"
    /\ row_idx < Len(rows)
    /\ LET t == TableLocals(Self, Element)
           cells == RowCells(Self, t, rows[row_idx + 1])
       IN  /\ cells.raised = ""
           /\ RowHeight(t, cells.cell_lines) > bottom_limit(Self.ctx) - FirstRowY(t)

\* the ops of row `row` of the table declared as element e, on page p
RowOpsOn(pgs, p, e, row) ==
    SelectSeq(pgs[p], LAMBDA o : o.elem = e /\ Part(o) = "row" /\ o.row = row)

\* render_row for one row: at most one page more, the row on the last page
\* only and, when a page was appended, right after the header on it; an
\* oversized row is rendered without an exception on an appended page
C30_Step ==
    (pc = "rows" /\ row_idx' # row_idx) =>
       /\ Len(pages') \in {Len(pages), Len(pages) + 1}
       /\ RowOpsOn(pages', Len(pages'), elem, row_idx) # <<>>
       /\ \A p \in 1..(Len(pages') - 1) : RowOpsOn(pages', p, elem, row_idx) = <<>>
       /\ Len(pages') = Len(pages) + 1 =>
             /\ pages'[Len(pages)] = pages[Len(pages)]
             /\ \A k \in 1..Len(pages'[Len(pages')]) :
                   LET o == pages'[Len(pages')][k]
                   IN  /\ o.elem = elem
                       /\ Part(o) = "header" \/ (Part(o) = "row" /\ o.row = row_idx)

C30_OversizedStep ==
    AtOversizedRow =>
       /\ raised' = ""
       /\ row_idx' = row_idx + 1
       /\ Len(pages') = Len(pages) + 1

\* a step of the for loop goes on to the next row or leaves with the
\* exception of a cell: no row is rendered twice
C30_RowsAdvance ==
    pc = "rows" =>
       \/ row_idx' = row_idx + 1 /\ raised' = ""
       \/ pc' = "raised" /\ pages' = pages

\* the rows of tables in the output
RowsEmitted == {<<AllOps[k].elem, AllOps[k].row>> :
                  k \in {j \in 1..Len(AllOps) : Part(AllOps[j]) = "row"}}

\* C30: composing a table over N rows ends, and it appends at most one page
\* for each row it renders, so at most N pages: each row is rendered by one
\* step that calls new_page() at most once and puts the whole row on the
\* last page; a row higher than the space between the first-row position
\* and the bottom limit is rendered whole on an appended page, without an
\* exception and with one page appended for it.
C30_TableEndsWithinNPages ==
    /\ [][C30_Step /\ C30_OversizedStep /\ C30_RowsAdvance]_vars
    /\ [](Len(pages) <= 1 + Cardinality(RowsEmitted))
    /\ [](pc = "rows" => row_idx < Len(rows))
    /\ (pc = "rows") ~> (pc # "rows")
    /\ <>(pc \in {"done", "raised"})

\* compose() returned N + 1 pages for a table over N > 1 rows, and a row of
\* two lines, higher than the room of the page, is whole on an appended page
C30_Witness ==
    /\ pc = "done"
    /\ Len(Elements) = 1
    /\ Len(rows) = MaxRows
    /\ Len(pages) = Len(rows) + 1
    /\ LET t == TableLocals(Self, Elements[1])
       IN  \E p \in 2..Len(pages), r \in 0..(Len(rows) - 1) :
              /\ 2 * t.row_leading + t.padding_top + t.padding_bottom
                    > bottom_limit(Self.ctx) - FirstRowY(t)
              /\ \E k \in 1..Len(RowOpsOn(pages, p, 1, r)) :
                    RowOpsOn(pages, p, 1, r)[k].line = 1

====
